---- MODULE Spec2Model ----
(***************************************************************************)
(* TuneTogether: the real-time session synchronisation engine of one       *)
(* client.                                                                 *)
(*                                                                         *)
(*  - SpecSync: a client of a session receives session_updated events;     *)
(*    the page's handleSessionUpdate starts the guest drift correction     *)
(*    (SpotifyContext.syncToPosition) and sets currentSong, on which the   *)
(*    MusicPlayer play-on-track effect calls playTrack.                    *)
(***************************************************************************)
EXTENDS Integers, Sequences, FiniteSets, TLC

VARIABLES
    \* ---- external player and adapter (SpotifyContext.jsx) ----
    pState,     \* the external player's state, as player.getCurrentState() reports it
    isReady,    \* SpotifyProvider state isReady
    \* ---- page and MusicPlayer, playback side ----
    upd,        \* the session_updated event being handled
    sync,       \* the run of syncToPosition started by handleSessionUpdate
    mp,         \* the run of playTrack started by the MusicPlayer effect
    reg,        \* the adapter's device registration: ready handshake and transfers
    \* ---- SocketProvider and page state, as of the last render ----
    connected,          \* SocketProvider state connected
    currentSessionId,   \* SocketProvider state currentSessionId
    currentSession,     \* page state currentSession
    next,               \* the same three states with the queued setState calls applied
    \* ---- channel ----
    sockUp,             \* the transport is connected
    lastEmit,           \* the last session_update emitted on the channel
    \* ---- host broadcast timer (page effect) ----
    intervals,          \* the interval timers that are set and not cleared
    intervalRef,        \* positionUpdateIntervalRef.current (0: null)
    hasCleanup,         \* the last run of the effect returned a cleanup function
    \* ---- handlers in flight ----
    join,               \* handleJoinSession / joinSession
    leave,              \* handleLeaveSession / handleDeleteSession / leaveSession
    sel,                \* handleTrackSelect
    seekEnd,            \* MusicPlayer handleSeekEnd / onPositionUpdate
    leftResolved,       \* a leaveSession call has resolved and no join was started since
    verify,             \* StreamSongsPage.jsx: the verifyAndLoadSession calls and the last result
    socket,             \* SocketProvider: the connect effect and the credential it found
    chat,               \* the page's messages, its clock and the last sendMessage call
    \* ---- adapter operations, queue and reported playback (SpotifyContext.jsx) ----
    lastOp,                \* the last call of pause, resume, seek or setVolume, and the volume
    q,                  \* the local queue and the runs of generateQueue and addToQueue
    bc,                 \* position, isPlaying as last reported, and the last broadcast position
    twin,               \* a second call of playTrack with the same answers, and its queue generation
    peer                \* the host of the member's session: its handleTrackSelect and its updates on the way

varsSync == <<pState, isReady, upd, reg, sync, mp>>
varsRendered == <<connected, currentSessionId, currentSession>>
varsTimer == <<intervals, intervalRef, hasCleanup>>
varsHandlers == <<join, leave, sel, seekEnd, leftResolved, verify, chat>>
varsChannel == <<varsRendered, next, socket, sockUp, lastEmit, varsTimer, varsHandlers>>
varsAdapter == <<lastOp, q, bc, twin, peer>>
vars == <<varsSync, varsChannel, varsAdapter>>

----------------------------------------------------------------------------
(* Values *)

Tracks == {"T1", "T2"}
NoTrack == "none"            \* updates.track_id absent
\* getCurrentState() resolved null: nothing is loaded in the player
NoState == [track |-> NoTrack, pos |-> 0, paused |-> FALSE]
\* getCurrentState() has not resolved
Unread == [track |-> "unread", pos |-> 0, paused |-> FALSE]
Missing == -1                \* updates.position_ms absent

\* positions (ms) the local player stands at, and positions the host reports
LocalPositions == {1, 502}
ReportedPositions == {Missing, 1, 501, 502}

\* answers of the Web API to a PUT (transfer, play): 2xx, 404, another status,
\* or the fetch itself rejecting
Responses == {"ok", "notfound", "error", "reject"}
\* outcomes of a call of the SDK player (getCurrentState, seek, pause, resume)
SdkOutcomes == {"ok", "reject"}

Abs(x) == IF x < 0 THEN -x ELSE x

\* `x || 0` of handleSessionUpdate and of the MusicPlayer effect
OrZero(x) == IF x = Missing THEN 0 ELSE x

PlayerStates ==
    {NoState} \cup [track : Tracks, pos : LocalPositions, paused : BOOLEAN]

Cmd(op, t, p) == [op |-> op, track |-> t, pos |-> p]

SelectCmds(s, ops) == SelectSeq(s, LAMBDA c : c.op \in ops)

----------------------------------------------------------------------------
(* SpotifyContext.jsx *)

DriftThresholdMs == 500

WaitAttemptsTransfer == 5      \* transferPlayback: waitForDeviceRegistration(deviceId, 5, 1000)
WaitAttemptsBeforePlay == 10   \* playTrackInternal, after a failed transfer
WaitAttemptsRetryPlay == 15    \* playTrackInternal, after a 404 on play

\* syncToPosition, same track: "Only seek if difference is more than 500ms"
NeedsSeekAtOrAbove(currentPosition, positionMs) ==
    Abs(currentPosition - positionMs) >= DriftThresholdMs

NeedsSeek(currentPosition, positionMs) ==
    Abs(currentPosition - positionMs) > DriftThresholdMs

\* currentState?.track_window?.current_track?.id
CurrentTrackId(cur) == IF cur = NoState THEN NoTrack ELSE cur.track

\* currentState?.position || 0
CurrentPosition(cur) == IF cur = NoState THEN 0 ELSE cur.pos

\* currentState?.paused, as a condition
LocalPaused(cur) == IF cur = NoState THEN FALSE ELSE cur.paused

\* syncToPosition, "Sync play/pause state"
PlayPauseSwapped(isPlaying, cur) ==
    IF isPlaying /\ LocalPaused(cur) THEN "pause"
    ELSE IF ~isPlaying /\ ~LocalPaused(cur) THEN "resume"
    ELSE "nothing"

PlayPauseDecision(isPlaying, cur) ==
    IF isPlaying /\ LocalPaused(cur) THEN "resume"
    ELSE IF ~isPlaying /\ ~LocalPaused(cur) THEN "pause"
    ELSE "nothing"

\* transferPlayback, after the PUT: true, false (404), or a raised error
TransferResult(resp) ==
    CASE resp = "ok" -> "true"
      [] resp = "notfound" -> "false"
      [] OTHER -> "throw"

\* waitForDeviceRegistration(target, maxAttempts): the poll number k (from 0)
\* either finds the device, or sleeps and polls again, or was the last one
WaitStepOneMore(k, maxAttempts, found) ==
    IF found THEN "found"
    ELSE IF k + 1 <= maxAttempts THEN "again"
    ELSE "notfound"

WaitStep(k, maxAttempts, found) ==
    IF found THEN "found"
    ELSE IF k + 1 < maxAttempts THEN "again"
    ELSE "notfound"

\* what the external player does with an accepted command
AfterPlay(t, p) == [track |-> t, pos |-> p, paused |-> FALSE]
AfterSeek(st, p) == IF st = NoState THEN st ELSE [st EXCEPT !.pos = p]
AfterPause(st, paused) == IF st = NoState THEN st ELSE [st EXCEPT !.paused = paused]

\* a second call of syncToPosition, made while the first is in flight
NoLate == [pc |-> "idle", k |-> 0, cur |-> Unread, err |-> "none", cmds |-> <<>>]

IdleSync ==
    [pc |-> "idle", k |-> 0, cur |-> Unread, err |-> "none", cmds |-> <<>>,
     late |-> NoLate]
\* first: the response to the first play request of the run ("none" before it);
\* track, pos, gen: the arguments trackUri, positionMs, generateQueueForTrack of
\* the call; ready: isReady in the render whose playTrack (and so whose
\* transferPlayback) is running
IdlePlay ==
    [pc |-> "idle", k |-> 0, err |-> "none", cmds |-> <<>>, first |-> "none",
     track |-> NoTrack, pos |-> 0, gen |-> TRUE, ready |-> FALSE]

\* `waitForDeviceRegistration(device_id, 15, 1000)` in the ready listener
WaitAttemptsReady == 15

\* reg.pc: where the adapter is - "uninitialized" before the first ready event,
\* "r_wait"/"r_put" in the ready listener, "idle" between calls,
\* "t_wait"/"t_put" in transferPlayback(true).
\* max, k, queries, result, lastFound describe the current (or last) call of
\* waitForDeviceRegistration; seen, sent, blind and exhausted are history:
\* a listing returned the device, a transfer request was sent, one was sent
\* before any listing returned the device, the handshake's wait returned false;
\* down: the player's last signal was not_ready
IdleReg ==
    [pc |-> "uninitialized", max |-> 0, k |-> 0, queries |-> 0, result |-> "none",
     lastFound |-> FALSE, seen |-> FALSE, sent |-> FALSE, blind |-> FALSE,
     exhausted |-> FALSE, down |-> FALSE]

\* no operation called yet; volume is the provider's initial 50
IdleOps == [op |-> "none", ready |-> FALSE, sent |-> FALSE, volume |-> 50]

\* generateQueue not called, addToQueue not called, nothing in the local queue
IdleEnqueue ==
    [pc |-> "idle", tracks |-> <<>>, i |-> 1, reqs |-> <<>>, inflight |-> 0,
     failed |-> FALSE, ready |-> FALSE]

\* no seed track; no call of generateQueue yet
NoSeed == [present |-> FALSE, id |-> ""]
NoInput == [seed |-> NoSeed, resp |-> [kind |-> "none", tracks |-> <<>>]]

\* no player_state_changed event with a track_window yet
NoReport == [window |-> FALSE, next |-> <<>>]

\* queue: the provider's state; report: the upcoming tracks last reported;
\* gen, raised, result: the last generateQueue call; enq: the addToQueue run
IdleQueue ==
    [queue |-> <<>>, report |-> NoReport, gen |-> "none", raised |-> FALSE,
     result |-> <<>>, input |-> NoInput, seed |-> NoTrack, ready |-> FALSE,
     enq |-> IdleEnqueue]

\* useState(0) for position, useState(false) for isPlaying; nothing broadcast
NotSent == -1
IdleBroadcast ==
    [position |-> 0, playing |-> FALSE, at |-> 0, sent |-> NotSent, live |-> NotSent,
     sentPlaying |-> FALSE]

\* the host has selected nothing; wire: its session_update events relayed
\* by the server and not yet handled by the member's page
IdlePeer ==
    [pc |-> "idle", track |-> "none", conn |-> TRUE, played |-> FALSE, issued |-> FALSE,
     ticks |-> 0, wire |-> <<>>]

AdapterInit ==
    /\ lastOp = IdleOps
    /\ q = IdleQueue
    /\ bc = IdleBroadcast
    /\ twin = [run |-> IdlePlay, gen |-> "none"]
    /\ peer = IdlePeer

\* the adapter after a handshake whose first listing returned the device
RegisteredReg ==
    [pc |-> "idle", max |-> WaitAttemptsReady, k |-> 0, queries |-> 1,
     result |-> "true", lastFound |-> TRUE, seen |-> TRUE, sent |-> TRUE,
     blind |-> FALSE, exhausted |-> FALSE, down |-> FALSE]

Quiet == sync.pc \in {"idle", "done"} /\ mp.pc \in {"idle", "done"}

----------------------------------------------------------------------------
(* Sessions and the local user *)

Sessions == {"s1", "s2"}
Null == "null"
Undef == "undefined"
Me == "me"
Other == "other"

\* host_id of the session records the service returns: the local user hosts s1
HostOf(s) == IF s = "s1" THEN Me ELSE Other

SessionRecord(s) == [id |-> s, host |-> HostOf(s)]

\* currentSession === null
NoSession == [id |-> Null, host |-> Null]

\* currentSession && user?.id === currentSession.host_id
IsHostOf(session) == session # NoSession /\ session.host = Me

----------------------------------------------------------------------------
(* StreamSongsPage (StreamMoviesPage.jsx, second module): handleSessionUpdate *)

\* setCurrentSession((prev) => ({ ...prev, ...updates })): h is updates.host_id
\* (Undef: absent).  Spreading a null prev leaves the fields of updates alone.
MergeUpdates(prev, h) ==
    IF prev = NoSession
    THEN [id |-> Undef, host |-> h]
    ELSE [prev EXCEPT !.host = IF h = Undef THEN @ ELSE h]

\* socket.on('session_updated'): data.session_id sid, and of data.updates the
\* fields track_id, position_ms, is_playing and host_id.  The handler merges
\* the updates into currentSession, starts syncToPosition on a guest (which
\* runs to its first await, player.getCurrentState()) and sets currentSong,
\* whose new object re-runs the MusicPlayer effect at the next render.
ForCurrentSessionNever(sid, cur) == FALSE

\* the handler applies every event, whatever session it names
ForCurrentSessionAlways(sid, cur) == TRUE

\* `if (data.session_id === currentSessionId)`
ForCurrentSession(sid, cur) == sid = cur

handleSessionUpdate(sid, t, p, pl, h) ==
    /\ Quiet
    /\ upd' = [sid |-> sid, track |-> t, pos |-> p, playing |-> pl]
    /\ IF ForCurrentSession(sid, currentSessionId)
       THEN /\ next' = [next EXCEPT !.session = MergeUpdates(next.session, h)]
            /\ sync' = IF /\ t # NoTrack
                          /\ currentSession # NoSession
                          /\ ~IsHostOf(currentSession)
                          /\ isReady
                       THEN [IdleSync EXCEPT !.pc = "getState"]
                       ELSE IdleSync
            /\ mp' = IF t # NoTrack THEN [IdlePlay EXCEPT !.pc = "effect"] ELSE IdlePlay
       ELSE /\ next' = next
            /\ sync' = IdleSync
            /\ mp' = IdlePlay
    /\ UNCHANGED <<pState, isReady, reg, varsRendered, socket, sockUp, lastEmit, varsTimer, varsHandlers,
                   lastOp, q, bc, twin>>

\* a playback update of the host: track, position and playing flag
ReceiveSessionUpdated ==
    /\ \E sid \in Sessions, t \in Tracks \cup {NoTrack}, p \in ReportedPositions, pl \in BOOLEAN :
         handleSessionUpdate(sid, t, p, pl, Undef)
    /\ UNCHANGED peer

\* the arguments handleSessionUpdate passes to syncToPosition
SyncTrack == upd.track
SyncPosition == OrZero(upd.pos)
SyncPlaying == upd.playing

\* the external player changes state on its own (another track, time passing,
\* the user pausing on another device)
PlayerStateChanged ==
    /\ Quiet
    /\ \E st \in PlayerStates : st # pState /\ pState' = st
    /\ UNCHANGED <<isReady, upd, reg, sync, mp, varsChannel, varsAdapter>>

----------------------------------------------------------------------------
(* SpotifyContext.jsx: syncToPosition, one step per awaited request *)

\* after the track/position step: the pause/resume call, if one is due
AfterTrackStep(run) ==
    IF PlayPauseDecision(SyncPlaying, run.cur) = "nothing"
    THEN [run EXCEPT !.pc = "done"]
    ELSE [run EXCEPT !.pc = "pp"]

\* await player.getCurrentState(), then the track comparison
SyncGetState ==
    /\ sync.pc = "getState"
    /\ \E o \in SdkOutcomes :
         IF o = "reject"
         THEN sync' = [sync EXCEPT !.pc = "done", !.err = "state"]
         ELSE LET run == [sync EXCEPT !.cur = pState] IN
              sync' = IF CurrentTrackId(pState) # SyncTrack
                      THEN [run EXCEPT !.pc = "t1_wait", !.k = 0]
                      ELSE IF NeedsSeek(CurrentPosition(pState), SyncPosition)
                      THEN [run EXCEPT !.pc = "seek"]
                      ELSE AfterTrackStep(run)
    /\ UNCHANGED <<pState, isReady, upd, reg, mp, varsChannel, varsAdapter>>

\* transferPlayback(): one poll of waitForDeviceRegistration(deviceId, 5, 1000)
SyncWaitPoll ==
    /\ sync.pc \in {"t1_wait", "t2_wait"}
    /\ \E found \in BOOLEAN :
         LET step == WaitStep(sync.k, WaitAttemptsTransfer, found)
             put == IF sync.pc = "t1_wait" THEN "t1_put" ELSE "t2_put" IN
         sync' = IF step = "again"
                 THEN [sync EXCEPT !.k = sync.k + 1]
                 ELSE [sync EXCEPT !.pc = put, !.k = 0]
    /\ UNCHANGED <<pState, isReady, upd, reg, mp, varsChannel, varsAdapter>>

\* transferPlayback(): the PUT /me/player.  The first call sits in its own
\* try/catch; the retry's error reaches the outer catch.
SyncTransferPut ==
    /\ sync.pc \in {"t1_put", "t2_put"}
    /\ \E resp \in Responses :
         LET run == [sync EXCEPT !.cmds = Append(sync.cmds, Cmd("transfer", NoTrack, 0))] IN
         sync' = IF sync.pc = "t1_put"
                 THEN [run EXCEPT !.pc = "play1"]
                 ELSE IF TransferResult(resp) = "throw"
                 THEN [run EXCEPT !.pc = "done", !.err = "track"]
                 ELSE [run EXCEPT !.pc = "play2"]
    /\ UNCHANGED <<pState, isReady, upd, reg, mp, varsChannel, varsAdapter>>

\* PUT /me/player/play with uris [trackUri] and position_ms positionMs
SyncPlay ==
    /\ sync.pc \in {"play1", "play2"}
    /\ \E resp \in Responses :
         LET run == [sync EXCEPT !.cmds = Append(sync.cmds, Cmd("play", SyncTrack, SyncPosition))] IN
         /\ sync' = IF resp = "reject"
                    THEN [run EXCEPT !.pc = "done", !.err = "track"]
                    ELSE IF sync.pc = "play1" /\ resp = "notfound"
                    THEN [run EXCEPT !.pc = "t2_wait", !.k = 0]
                    ELSE AfterTrackStep(run)
         /\ pState' = IF resp = "ok" THEN AfterPlay(SyncTrack, SyncPosition) ELSE pState
    /\ UNCHANGED <<isReady, upd, reg, mp, varsChannel, varsAdapter>>

\* await player.seek(positionMs)
SyncSeek ==
    /\ sync.pc = "seek"
    /\ \E o \in SdkOutcomes :
         LET run == [sync EXCEPT !.cmds = Append(sync.cmds, Cmd("seek", NoTrack, SyncPosition))] IN
         /\ sync' = IF o = "reject"
                    THEN [run EXCEPT !.pc = "done", !.err = "track"]
                    ELSE AfterTrackStep(run)
         /\ pState' = IF o = "ok" THEN AfterSeek(pState, SyncPosition) ELSE pState
    /\ UNCHANGED <<isReady, upd, reg, mp, varsChannel, varsAdapter>>

\* await player.resume() or await player.pause()
SyncPlayPause ==
    /\ sync.pc = "pp"
    /\ \E o \in SdkOutcomes :
         LET op == PlayPauseDecision(SyncPlaying, sync.cur)
             run == [sync EXCEPT !.cmds = Append(sync.cmds, Cmd(op, NoTrack, 0))] IN
         /\ sync' = [run EXCEPT !.pc = "done", !.err = IF o = "reject" THEN "pp" ELSE "none"]
         /\ pState' = IF o = "ok" THEN AfterPause(pState, op = "pause") ELSE pState
    /\ UNCHANGED <<isReady, upd, reg, mp, varsChannel, varsAdapter>>

----------------------------------------------------------------------------
(* A second run of syncToPosition, started by the re-broadcast of the      *)
(* update while the first run is awaiting a request                         *)

\* handleSessionUpdate is called again with the update it is handling: the
\* merge and the new currentSong change nothing that is rendered, and
\* syncToPosition, which keeps no record of a run in flight, starts again
RebroadcastUpdate ==
    /\ sync.pc \notin {"idle", "done"}
    /\ sync.late.pc = "idle"
    /\ ForCurrentSession(upd.sid, currentSessionId)
    /\ upd.track # NoTrack
    /\ currentSession # NoSession
    /\ ~IsHostOf(currentSession)
    /\ isReady
    /\ sync' = [sync EXCEPT !.late = [NoLate EXCEPT !.pc = "getState"]]
    /\ UNCHANGED <<pState, isReady, upd, reg, mp, varsChannel, varsAdapter>>

\* await player.getCurrentState(), then the track comparison
LateGetState ==
    /\ sync.late.pc = "getState"
    /\ \E o \in SdkOutcomes :
         IF o = "reject"
         THEN sync' = [sync EXCEPT !.late = [@ EXCEPT !.pc = "done", !.err = "state"]]
         ELSE LET run == [sync.late EXCEPT !.cur = pState] IN
              sync' = [sync EXCEPT !.late =
                         IF CurrentTrackId(pState) # SyncTrack
                         THEN [run EXCEPT !.pc = "t1_wait", !.k = 0]
                         ELSE IF NeedsSeek(CurrentPosition(pState), SyncPosition)
                         THEN [run EXCEPT !.pc = "seek"]
                         ELSE AfterTrackStep(run)]
    /\ UNCHANGED <<pState, isReady, upd, reg, mp, varsChannel, varsAdapter>>

\* transferPlayback(): one poll of waitForDeviceRegistration(deviceId, 5, 1000)
LateWaitPoll ==
    /\ sync.late.pc \in {"t1_wait", "t2_wait"}
    /\ \E found \in BOOLEAN :
         LET step == WaitStep(sync.late.k, WaitAttemptsTransfer, found)
             put == IF sync.late.pc = "t1_wait" THEN "t1_put" ELSE "t2_put" IN
         sync' = [sync EXCEPT !.late =
                    IF step = "again"
                    THEN [@ EXCEPT !.k = @ + 1]
                    ELSE [@ EXCEPT !.pc = put, !.k = 0]]
    /\ UNCHANGED <<pState, isReady, upd, reg, mp, varsChannel, varsAdapter>>

\* transferPlayback(): the PUT /me/player
LateTransferPut ==
    /\ sync.late.pc \in {"t1_put", "t2_put"}
    /\ \E resp \in Responses :
         LET run == [sync.late EXCEPT
                       !.cmds = Append(@, Cmd("transfer", NoTrack, 0))] IN
         sync' = [sync EXCEPT !.late =
                    IF sync.late.pc = "t1_put"
                    THEN [run EXCEPT !.pc = "play1"]
                    ELSE IF TransferResult(resp) = "throw"
                    THEN [run EXCEPT !.pc = "done", !.err = "track"]
                    ELSE [run EXCEPT !.pc = "play2"]]
    /\ UNCHANGED <<pState, isReady, upd, reg, mp, varsChannel, varsAdapter>>

\* PUT /me/player/play with uris [trackUri] and position_ms positionMs
LatePlay ==
    /\ sync.late.pc \in {"play1", "play2"}
    /\ \E resp \in Responses :
         LET run == [sync.late EXCEPT
                       !.cmds = Append(@, Cmd("play", SyncTrack, SyncPosition))] IN
         /\ sync' = [sync EXCEPT !.late =
                       IF resp = "reject"
                       THEN [run EXCEPT !.pc = "done", !.err = "track"]
                       ELSE IF sync.late.pc = "play1" /\ resp = "notfound"
                       THEN [run EXCEPT !.pc = "t2_wait", !.k = 0]
                       ELSE AfterTrackStep(run)]
         /\ pState' = IF resp = "ok" THEN AfterPlay(SyncTrack, SyncPosition) ELSE pState
    /\ UNCHANGED <<isReady, upd, reg, mp, varsChannel, varsAdapter>>

\* await player.seek(positionMs)
LateSeek ==
    /\ sync.late.pc = "seek"
    /\ \E o \in SdkOutcomes :
         LET run == [sync.late EXCEPT
                       !.cmds = Append(@, Cmd("seek", NoTrack, SyncPosition))] IN
         /\ sync' = [sync EXCEPT !.late =
                       IF o = "reject"
                       THEN [run EXCEPT !.pc = "done", !.err = "track"]
                       ELSE AfterTrackStep(run)]
         /\ pState' = IF o = "ok" THEN AfterSeek(pState, SyncPosition) ELSE pState
    /\ UNCHANGED <<isReady, upd, reg, mp, varsChannel, varsAdapter>>

\* await player.resume() or await player.pause()
LatePlayPause ==
    /\ sync.late.pc = "pp"
    /\ \E o \in SdkOutcomes :
         LET op == PlayPauseDecision(SyncPlaying, sync.late.cur)
             run == [sync.late EXCEPT !.cmds = Append(@, Cmd(op, NoTrack, 0))] IN
         /\ sync' = [sync EXCEPT !.late =
                       [run EXCEPT !.pc = "done",
                                   !.err = IF o = "reject" THEN "pp" ELSE "none"]]
         /\ pState' = IF o = "ok" THEN AfterPause(pState, op = "pause") ELSE pState
    /\ UNCHANGED <<isReady, upd, reg, mp, varsChannel, varsAdapter>>

----------------------------------------------------------------------------
(* MusicPlayer (InviteFriendsModal.jsx, second module) and playTrackInternal *)

\* the arguments of playTrack(trackUri, track.position_ms || 0), track being
\* the currentSong handleSessionUpdate has set
PlayTrackArg == upd.track
PlayPositionArg == OrZero(OrZero(upd.pos))

\* playTrack(trackUri, positionMs) is entered by a render whose isReady is
\* `ready`: transferPlayback(true) raises at once when that is false, and the
\* call goes on to the 10-attempt wait
PlayBegin(t, p, gen, ready) ==
    [IdlePlay EXCEPT !.pc = IF ready THEN "a_wait" ELSE "b_wait",
                     !.track = t, !.pos = p, !.gen = gen, !.ready = ready]

\* useEffect [track, isReady, playTrack]: play the track prop when it changes
MusicPlayerEffect ==
    /\ mp.pc = "effect"
    /\ mp' = IF isReady THEN PlayBegin(PlayTrackArg, PlayPositionArg, TRUE, TRUE)
             ELSE [mp EXCEPT !.pc = "done"]
    /\ UNCHANGED <<pState, isReady, upd, reg, sync, varsChannel, varsAdapter>>

\* the ceiling of the wait the run is in
PlayWaitCeiling(pc) ==
    CASE pc = "a_wait" -> WaitAttemptsTransfer
      [] pc = "b_wait" -> WaitAttemptsBeforePlay
      [] OTHER -> WaitAttemptsRetryPlay

\* no wait ends the call: one that found no device is started again
GivesUpNever(pc) == FALSE

\* `throw new Error('Device not registered after waiting')`: the wait after a
\* 404 on play found no device
GivesUp(pc) == pc = "c_wait"

\* one poll of waitForDeviceRegistration: inside transferPlayback(true) (5),
\* after a failed transfer (10), after a 404 on play (15)
PlayWaitNext(run, found) ==
    LET step == WaitStep(run.k, PlayWaitCeiling(run.pc), found) IN
    CASE step = "again" -> [run EXCEPT !.k = run.k + 1]
      [] step # "again" /\ run.pc = "a_wait" -> [run EXCEPT !.pc = "a_put", !.k = 0]
      [] step = "found" /\ run.pc = "b_wait" -> [run EXCEPT !.pc = "b_put", !.k = 0]
      [] step = "notfound" /\ run.pc = "b_wait" -> [run EXCEPT !.pc = "gen", !.k = 0]
      [] step = "found" /\ run.pc = "c_wait" -> [run EXCEPT !.pc = "c_put", !.k = 0]
      [] step = "notfound" /\ GivesUp(run.pc) ->
             [run EXCEPT !.pc = "done", !.k = 0, !.err = "device"]
      [] OTHER -> [run EXCEPT !.k = 0]

PlayWaitPoll ==
    /\ mp.pc \in {"a_wait", "b_wait", "c_wait"}
    /\ \E found \in BOOLEAN : mp' = PlayWaitNext(mp, found)
    /\ UNCHANGED <<pState, isReady, upd, reg, sync, varsChannel, varsAdapter>>

\* transferPlayback: raises before its PUT /me/player when isReady is false.
\* Every call of playTrackInternal catches its error; only the first one's
\* result decides the next step.
PlayTransferNext(run, resp) ==
    LET sent == IF run.ready
                THEN [run EXCEPT !.cmds = Append(run.cmds, Cmd("transfer", NoTrack, 0))]
                ELSE run IN
    CASE run.pc = "a_put" /\ TransferResult(resp) = "true" -> [sent EXCEPT !.pc = "gen"]
      [] run.pc = "a_put" /\ TransferResult(resp) # "true" -> [sent EXCEPT !.pc = "b_wait", !.k = 0]
      [] run.pc = "b_put" -> [sent EXCEPT !.pc = "gen"]
      [] OTHER -> [sent EXCEPT !.pc = "play2"]

PlayTransferPut ==
    /\ mp.pc \in {"a_put", "b_put", "c_put"}
    /\ \E resp \in Responses : mp' = PlayTransferNext(mp, resp)
    /\ UNCHANGED <<pState, isReady, upd, reg, sync, varsChannel, varsAdapter>>

\* `if (!skipQueueGen && trackId)`: generateQueue is called and its promise
\* left to itself (.then(...).catch(...)); the run goes on to the play request
StartsQueueGen(run) == run.gen /\ run.track # NoTrack

PlayQueueGenNext(run) == [run EXCEPT !.pc = "play1"]

PlayQueueGen ==
    /\ mp.pc = "gen"
    /\ mp' = PlayQueueGenNext(mp)
    /\ q' = IF StartsQueueGen(mp)
            THEN [q EXCEPT !.gen = "pending", !.result = <<>>, !.input = NoInput,
                           !.seed = mp.track, !.ready = mp.ready]
            ELSE q
    /\ UNCHANGED <<pState, isReady, upd, reg, sync, varsChannel, lastOp, bc, twin, peer>>

\* the play request is sent only once the generateQueue promise has settled
PlayWaitsForPendingQueue(gen) == gen = "pending"

\* the play request does not await the generateQueue promise
PlayWaitsForQueue(gen) == FALSE

\* a failed play request is retried whatever its status
RetriesPlayAnyFailure(pc, resp) == pc = "play1" /\ resp # "ok"

\* `if (response.status === 404)` after the first play request; the retry's
\* own failure is raised
RetriesPlay(pc, resp) == pc = "play1" /\ resp = "notfound"

\* PUT /me/player/play; a 404 on the first request leads to the one retry
PlayPutNext(run, resp) ==
    LET sent == [run EXCEPT !.cmds = Append(run.cmds, Cmd("play", run.track, run.pos)),
                            !.first = IF run.pc = "play1" THEN resp ELSE @] IN
    CASE resp = "ok" -> [sent EXCEPT !.pc = "done"]
      [] RetriesPlay(run.pc, resp) -> [sent EXCEPT !.pc = "c_wait", !.k = 0]
      [] OTHER -> [sent EXCEPT !.pc = "done", !.err = "play"]

PlayPut ==
    /\ mp.pc \in {"play1", "play2"}
    /\ ~PlayWaitsForQueue(q.gen)
    /\ \E resp \in Responses :
         /\ mp' = PlayPutNext(mp, resp)
         /\ pState' = IF resp = "ok" THEN AfterPlay(mp.track, mp.pos) ELSE pState
    /\ UNCHANGED <<isReady, upd, reg, sync, varsChannel, varsAdapter>>

----------------------------------------------------------------------------
(* Rendering: queued state updates, and the host position-update effect *)

MaxIntervals == 3     \* timer handles 1..MaxIntervals

Rendered == [connected |-> connected, sessionId |-> currentSessionId, session |-> currentSession]

\* setInterval: a handle that is not in use
FreshInterval(ivs) ==
    IF \E i \in 1..MaxIntervals : i \notin ivs
    THEN CHOOSE i \in 1..MaxIntervals : i \notin ivs /\ \A j \in 1..MaxIntervals : j \notin ivs => i <= j
    ELSE MaxIntervals

\* clearInterval(ref) when ref is set
ClearInterval(ivs, ref) == IF ref # 0 THEN ivs \ {ref} ELSE ivs

\* the effect without the cleanup of its previous run
HostTimerEffectNoCleanup(session, ivs, ref, cleanup) ==
    IF ~IsHostOf(session)
    THEN [intervals |-> ClearInterval(ivs, ref), ref |-> 0, cleanup |-> FALSE]
    ELSE LET id == FreshInterval(ivs) IN
         [intervals |-> ivs \cup {id}, ref |-> id, cleanup |-> TRUE]

\* "Host: Send position updates to guests": the cleanup the previous run
\* returned, then the effect on the session just rendered
HostTimerEffect(session, ivs, ref, cleanup) ==
    LET cleared == IF cleanup THEN ClearInterval(ivs, ref) ELSE ivs IN
    IF ~IsHostOf(session)
    THEN [intervals |-> ClearInterval(cleared, ref), ref |-> 0, cleanup |-> FALSE]
    ELSE LET id == FreshInterval(cleared) IN
         [intervals |-> cleared \cup {id}, ref |-> id, cleanup |-> TRUE]

\* React renders the queued updates; the effect's dependencies (currentSession,
\* currentSessionId, updateSession) have changed, so it runs again
CommitRender ==
    /\ connected' = next.connected
    /\ currentSessionId' = next.sessionId
    /\ currentSession' = next.session
    /\ LET e == HostTimerEffect(next.session, intervals, intervalRef, hasCleanup) IN
         /\ intervals' = e.intervals
         /\ intervalRef' = e.ref
         /\ hasCleanup' = e.cleanup

Render ==
    /\ next # Rendered
    /\ CommitRender
    /\ UNCHANGED <<varsSync, next, socket, sockUp, lastEmit, varsHandlers, varsAdapter>>

\* player_state_changed reports another position: the page renders with the
\* new position (and whatever else is queued), and the effect, which depends
\* on position, runs again
PlaybackRender ==
    /\ pState # NoState
    /\ \E p \in LocalPositions :
         /\ p # pState.pos
         /\ pState' = [pState EXCEPT !.pos = p]
    /\ CommitRender
    /\ UNCHANGED <<isReady, upd, reg, sync, mp, next, socket, sockUp, lastEmit, varsHandlers, varsAdapter>>

----------------------------------------------------------------------------
(* SocketProvider (src/unnamed/part_000) *)

\* newSocket.on('connect'): setConnected(true)
SocketConnect ==
    /\ socket.pc = "created"
    /\ ~sockUp
    /\ sockUp' = TRUE
    /\ next' = [next EXCEPT !.connected = TRUE]
    /\ UNCHANGED <<socket, varsSync, varsRendered, lastEmit, varsTimer, varsHandlers, varsAdapter>>

\* newSocket.on('disconnect'): setConnected(false)
SocketDisconnect ==
    /\ sockUp
    /\ sockUp' = FALSE
    /\ next' = [next EXCEPT !.connected = FALSE]
    /\ UNCHANGED <<socket, varsSync, varsRendered, lastEmit, varsTimer, varsHandlers, varsAdapter>>

\* updateSession as a closure over conn and sid: does it emit session_update?
\* (it throws 'Socket not connected or no active session' otherwise)
UpdateSessionEmits(conn, sid) == conn /\ sid # Null

NoEmit == [by |-> "none", sid |-> Null, host |-> FALSE, afterLeave |-> FALSE]

\* socket.emit('session_update', { session_id: sid, ...updates }), with what
\* the client is at that moment: host of its rendered current session or not
Emission(by, sid) ==
    [by |-> by, sid |-> sid, host |-> IsHostOf(currentSession), afterLeave |-> leftResolved]

----------------------------------------------------------------------------
(* Joining: handleJoinSession (page) and joinSession (SocketProvider) *)

\* a second joinSession call, made while the first is pending: its session,
\* its acknowledgement and once listeners, how its promise was settled and
\* the session the settling signal was about
NoRival ==
    [sid |-> Null, ack |-> "none", onJoined |-> FALSE, onError |-> FALSE,
     settled |-> "no", by |-> Null]

\* by: the session the joined_session or error event that settled the promise
\* was about (Null: not settled by an event)
IdleJoin ==
    [pc |-> "idle", sid |-> Null, conn |-> FALSE, ack |-> "none", onJoined |-> FALSE,
     onError |-> FALSE, settled |-> "no", emitted |-> 0, lateChange |-> FALSE,
     by |-> Null, other |-> NoRival]

\* handleJoinSession(sessionId), up to `await api.getSession(sessionId)`
JoinStart ==
    /\ join.pc \in {"idle", "done"}
    /\ \E s \in Sessions :
         join' = [IdleJoin EXCEPT !.pc = "lookup", !.sid = s, !.conn = connected]
    /\ leftResolved' = FALSE
    /\ UNCHANGED <<varsSync, varsRendered, next, socket, sockUp, lastEmit, varsTimer, verify, chat, leave, sel, seekEnd, varsAdapter>>

\* api.getSession answers; `if (connected)` and joinSession's own check read
\* the connected of the render the handler was created in.  joinSession emits
\* join_session with an acknowledgement callback and registers the two once
\* listeners.
JoinLookup ==
    /\ join.pc = "lookup"
    /\ \E found \in BOOLEAN :
         join' = IF found /\ join.conn
                 THEN [join EXCEPT !.pc = "pending", !.ack = "pending", !.onJoined = TRUE,
                                   !.onError = TRUE, !.emitted = join.emitted + 1]
                 ELSE [join EXCEPT !.pc = "done"]
    /\ UNCHANGED <<varsSync, varsRendered, next, socket, sockUp, lastEmit, varsTimer, verify, chat, leave, sel, seekEnd, leftResolved, varsAdapter>>

\* the continuation of handleJoinSession once joinSession has resolved:
\* setCurrentSession(session)
AfterJoinResolved(nx, s) == [nx EXCEPT !.session = SessionRecord(s)]

\* a signal settles the pending promise, or finds it settled
Settle(j, how) == IF j.settled = "no" THEN [j EXCEPT !.settled = how, !.pc = "done"] ELSE j

\* the acknowledgement callback of join_session
JoinAck ==
    /\ join.ack = "pending"
    /\ sockUp
    /\ \E ok \in BOOLEAN :
         IF ok
         THEN LET set == [next EXCEPT !.sessionId = join.sid]
                  nx == IF join.settled = "no" THEN AfterJoinResolved(set, join.sid) ELSE set IN
              /\ next' = nx
              /\ join' = [Settle(join, "resolved") EXCEPT
                              !.ack = "arrived",
                              !.lateChange = @ \/ (join.settled # "no" /\ nx # next)]
         ELSE /\ next' = next
              /\ join' = [Settle(join, "rejected") EXCEPT !.ack = "arrived"]
    /\ UNCHANGED <<varsSync, varsRendered, socket, sockUp, lastEmit, varsTimer, verify, chat, leave, sel, seekEnd, leftResolved, varsAdapter>>

\* socket.once('joined_session', (data) => resolve(data))
JoinedSessionEvent ==
    /\ join.onJoined
    /\ sockUp
    /\ next' = IF join.settled = "no" THEN AfterJoinResolved(next, join.sid) ELSE next
    /\ join' = [Settle(join, "resolved") EXCEPT !.onJoined = FALSE]
    /\ UNCHANGED <<varsSync, varsRendered, socket, sockUp, lastEmit, varsTimer, verify, chat, leave, sel, seekEnd, leftResolved, varsAdapter>>

\* socket.once('error', (error) => reject(...))
JoinErrorEvent ==
    /\ join.onError
    /\ sockUp
    /\ join' = [Settle(join, "rejected") EXCEPT !.onError = FALSE]
    /\ UNCHANGED <<varsSync, varsRendered, next, socket, sockUp, lastEmit, varsTimer, verify, chat, leave, sel, seekEnd, leftResolved, varsAdapter>>

----------------------------------------------------------------------------
(* Two joinSession calls pending at once: handleJoinSession of the page and *)
(* handleGoToJam of NotificationBell.jsx                                    *)

\* handleGoToJam: `if (connected) await joinSession(notification.session_id)`
\* while the page's join of another session awaits its signals: join_session
\* is emitted and a second pair of once listeners is registered
SecondJoinCall ==
    /\ join.pc = "pending"
    /\ join.other.sid = Null
    /\ connected
    /\ \E s \in Sessions \ {join.sid} :
         join' = [join EXCEPT !.other = [NoRival EXCEPT !.sid = s, !.ack = "pending",
                                                        !.onJoined = TRUE, !.onError = TRUE],
                              !.emitted = @ + 1]
    /\ UNCHANGED <<varsSync, varsRendered, next, socket, sockUp, lastEmit, varsTimer, verify, chat, leave, sel, seekEnd, leftResolved, varsAdapter>>

\* a signal about session s reaches a promise: it settles it unless settled
SettleBy(j, how, s) ==
    IF j.settled = "no" THEN [j EXCEPT !.settled = how, !.by = s] ELSE j

\* the acknowledgement callback of the second join_session
SecondJoinAck ==
    /\ join.other.ack = "pending"
    /\ sockUp
    /\ \E ok \in BOOLEAN :
         /\ next' = IF ok THEN [next EXCEPT !.sessionId = join.other.sid] ELSE next
         /\ join' = [join EXCEPT
                       !.other = [SettleBy(@, IF ok THEN "resolved" ELSE "rejected", @.sid)
                                    EXCEPT !.ack = "arrived"]]
    /\ UNCHANGED <<varsSync, varsRendered, socket, sockUp, lastEmit, varsTimer, verify, chat, leave, sel, seekEnd, leftResolved, varsAdapter>>

\* the once listeners registered for `event` that one emission of it runs
\* (and removes): mine - the first call's, rival - the second call's
ListenersRun(j, event) ==
    IF event = "joined_session"
    THEN [mine |-> j.onJoined, rival |-> j.other.onJoined]
    ELSE [mine |-> j.onError, rival |-> j.other.onError]

\* the server emits joined_session or error about session s: every once
\* listener of that event runs, whichever call registered it
JoinSignalFor(event, s) ==
    LET run == ListenersRun(join, event)
        how == IF event = "joined_session" THEN "resolved" ELSE "rejected"
        first == IF run.mine
                 THEN [Settle(join, how)
                         EXCEPT !.onJoined = IF event = "joined_session" THEN FALSE ELSE @,
                                !.onError = IF event = "error" THEN FALSE ELSE @,
                                !.by = IF join.settled = "no" THEN s ELSE @]
                 ELSE join
        second == IF run.rival
                  THEN [SettleBy(join.other, how, s)
                          EXCEPT !.onJoined = IF event = "joined_session" THEN FALSE ELSE @,
                                 !.onError = IF event = "error" THEN FALSE ELSE @]
                  ELSE join.other IN
    /\ run.mine \/ run.rival
    /\ join' = [first EXCEPT !.other = second]
    /\ next' = IF run.mine /\ join.settled = "no" /\ event = "joined_session"
               THEN AfterJoinResolved(next, join.sid)
               ELSE next

\* a joined_session or an error event that belongs to one of the two calls
JoinSignal ==
    /\ sockUp
    /\ join.other.sid # Null
    /\ \E event \in {"joined_session", "error"}, s \in {join.sid, join.other.sid} :
         JoinSignalFor(event, s)
    /\ UNCHANGED <<varsSync, varsRendered, socket, sockUp, lastEmit, varsTimer, verify, chat, leave, sel, seekEnd, leftResolved, varsAdapter>>

----------------------------------------------------------------------------
(* Leaving: handleLeaveSession, handleDeleteSession (page), leaveSession *)

IdleLeave ==
    [pc |-> "idle", kind |-> "none", called |-> FALSE, conn |-> FALSE, emitted |-> FALSE,
     sidAfter |-> Null]

\* the page's clearing of its state: setCurrentSession(null)
ClearPage(nx) == [nx EXCEPT !.session = NoSession]

\* ... and setMessages([])
ClearMessages(c) == [c EXCEPT !.msgs = <<>>]

\* leaveSession(sessionId) called by a handler rendered with connected = conn:
\* does it emit leave_session and wait for the acknowledgement?
LeaveEmits(conn) == conn

\* handleLeaveSession: `if (currentSessionId)`, then leaveSession.  When the
\* channel is not connected leaveSession returns at once and the handler
\* clears the page state in the same task.
LeaveStart ==
    /\ leave.pc \in {"idle", "done"}
    /\ currentSessionId # Null
    /\ IF LeaveEmits(connected)
       THEN /\ leave' = [IdleLeave EXCEPT !.pc = "ack", !.kind = "leave", !.called = TRUE,
                                          !.conn = TRUE, !.emitted = TRUE]
            /\ UNCHANGED <<next, leftResolved, chat>>
       ELSE /\ next' = ClearPage(next)
            /\ chat' = ClearMessages(chat)
            /\ leave' = [IdleLeave EXCEPT !.pc = "done", !.kind = "leave", !.called = TRUE,
                                          !.conn = FALSE, !.sidAfter = next.sessionId]
            /\ leftResolved' = TRUE
    /\ UNCHANGED <<varsSync, varsRendered, socket, sockUp, lastEmit, varsTimer, verify, join, sel, seekEnd, varsAdapter>>

\* handleDeleteSession: `if (!currentSession || !isHost) return`, the leave
\* `if (currentSessionId)`, then api.deleteSession
DeleteStart ==
    /\ leave.pc \in {"idle", "done"}
    /\ IsHostOf(currentSession)
    /\ IF currentSessionId # Null /\ LeaveEmits(connected)
       THEN /\ leave' = [IdleLeave EXCEPT !.pc = "ack", !.kind = "delete", !.called = TRUE,
                                          !.conn = TRUE, !.emitted = TRUE]
            /\ UNCHANGED leftResolved
       ELSE /\ leave' = [IdleLeave EXCEPT !.pc = "api", !.kind = "delete",
                                          !.called = (currentSessionId # Null),
                                          !.conn = connected, !.sidAfter = next.sessionId]
            /\ leftResolved' = (leftResolved \/ currentSessionId # Null)
    /\ UNCHANGED <<varsSync, varsRendered, next, socket, sockUp, lastEmit, varsTimer, verify, chat, join, sel, seekEnd, varsAdapter>>

\* the acknowledgement callback of leave_session: setCurrentSessionId(null),
\* resolve(); the awaiting handler continues in the same task
LeaveAck ==
    /\ leave.pc = "ack"
    /\ sockUp
    /\ LET cleared == [next EXCEPT !.sessionId = Null] IN
         IF leave.kind = "leave"
         THEN /\ next' = ClearPage(cleared)
              /\ chat' = ClearMessages(chat)
              /\ leave' = [leave EXCEPT !.pc = "done", !.sidAfter = Null]
         ELSE /\ next' = cleared
              /\ chat' = chat
              /\ leave' = [leave EXCEPT !.pc = "api", !.sidAfter = Null]
    /\ leftResolved' = TRUE
    /\ UNCHANGED <<varsSync, varsRendered, socket, sockUp, lastEmit, varsTimer, verify, join, sel, seekEnd, varsAdapter>>

\* api.deleteSession answers or fails: the state is cleared on both paths
DeleteApiResult ==
    /\ leave.pc = "api"
    /\ \E ok \in BOOLEAN :
         /\ next' = ClearPage(next)
         /\ chat' = ClearMessages(chat)
         /\ leave' = [leave EXCEPT !.pc = "done"]
    /\ UNCHANGED <<varsSync, varsRendered, socket, sockUp, lastEmit, varsTimer, verify, join, sel, seekEnd, leftResolved, varsAdapter>>

----------------------------------------------------------------------------
(* StreamSongsPage.jsx: a cached currentSessionId is verified after a (re)connect *)

NoResult == [sid |-> Null, allowed |-> FALSE, raised |-> FALSE, sidAfter |-> Null,
             sessionAfter |-> NoSession]

IdleVerify == [pending |-> {}, last |-> NoResult]

\* the context value of SocketProvider has no clearSession: the page's
\* `clearSession()` is a call of undefined and raises a TypeError
ClearSessionRaises == TRUE

\* the page's effect on [location.state, currentSessionId, connected, user],
\* for a logged-in user and no navigation state: verifyAndLoadSession starts
\* and runs to `await api.getSession(currentSessionId)`
StartsVerify(conn, sid, session) == sid # Null /\ session = NoSession /\ conn

PageEffect(conn, sid, session, v) ==
    IF StartsVerify(conn, sid, session)
    THEN [v EXCEPT !.pending = @ \cup {sid}]
    ELSE v

\* React renders the queued updates of the provider and of this page, and the
\* effect runs when currentSessionId or connected has changed
ReconnectRender ==
    /\ next # Rendered
    /\ connected' = next.connected
    /\ currentSessionId' = next.sessionId
    /\ currentSession' = next.session
    /\ verify' = IF next.connected # connected \/ next.sessionId # currentSessionId
                  THEN PageEffect(next.connected, next.sessionId, next.session, verify)
                  ELSE verify
    /\ UNCHANGED <<varsSync, next, socket, sockUp, lastEmit, varsTimer, join, leave, sel, seekEnd,
                   leftResolved, chat, varsAdapter>>

\* the user comes back to the page: the page state starts empty, the provider
\* keeps its state, and the effect runs on mount
PageMount ==
    /\ currentSession' = NoSession
    /\ connected' = next.connected
    /\ currentSessionId' = next.sessionId
    /\ next' = [next EXCEPT !.session = NoSession]
    /\ verify' = PageEffect(next.connected, next.sessionId, NoSession,
                            [verify EXCEPT !.pending = {}])
    /\ UNCHANGED <<varsSync, socket, sockUp, lastEmit, varsTimer, join, leave, sel, seekEnd,
                   leftResolved, chat, varsAdapter>>

\* `isHost || isMember` on the session the lookup returned
MayRestore(sid, found, member) == found /\ (HostOf(sid) = Me \/ member)

\* api.getSession answers or fails.  A host or member gets the session set;
\* otherwise clearSession() raises in the try, the catch calls it again, and
\* the second TypeError leaves the handler before any state is set.
VerifyResult ==
    /\ \E sid \in verify.pending, found \in BOOLEAN, member \in BOOLEAN :
         LET allowed == MayRestore(sid, found, member)
             nx == IF allowed THEN [next EXCEPT !.session = SessionRecord(sid)]
                   ELSE IF ClearSessionRaises THEN next
                   ELSE [next EXCEPT !.sessionId = Null, !.session = NoSession] IN
         /\ next' = nx
         /\ verify' = [pending |-> verify.pending \ {sid},
                       last |-> [sid |-> sid, allowed |-> allowed,
                                 raised |-> ~allowed /\ ClearSessionRaises,
                                 sidAfter |-> nx.sessionId, sessionAfter |-> nx.session]]
    /\ UNCHANGED <<varsSync, varsRendered, socket, sockUp, lastEmit, varsTimer, join, leave, sel,
                   seekEnd, leftResolved, chat, varsAdapter>>

----------------------------------------------------------------------------
(* SocketProvider: the connect effect *)

\* `const token = getAuthToken(); if (!token) return;` - otherwise io(...) is
\* called and the listeners are registered
CreatesSocketAlways(token) == TRUE

CreatesSocket(token) == token

\* the effect runs once, after the first render of the provider
ProviderMount ==
    /\ socket.pc = "uninitialized"
    /\ \E token \in BOOLEAN :
         socket' = [pc |-> IF CreatesSocket(token) THEN "created" ELSE "skipped",
                    token |-> token]
    /\ UNCHANGED <<varsSync, varsRendered, next, sockUp, lastEmit, varsTimer, varsHandlers, varsAdapter>>

----------------------------------------------------------------------------
(* Chat: handleSendMessage and the chat:message listener of both pages *)

DuplicateWindowMs == 2000

MaxMessages == 2      \* messages kept on display

Times == {0, 1000, 2000, 3000}

Texts == {"hello", "bye"}

\* a displayed message; local marks the entries handleSendMessage appended
Entry(u, text, ts, local) ==
    [username |-> u, message |-> text, timestamp |-> ts, local |-> local]

NoSend == [called |-> FALSE, conn |-> FALSE, sid |-> Null, emitted |-> FALSE, to |-> Null]

NoEcho == [matched |-> FALSE, username |-> Null, message |-> Null, timestamp |-> 0]

\* the last user_joined / user_left event: whether the page had a session
\* when it came, and whether the listener appended a message
NoMember == [seen |-> FALSE, inSession |-> FALSE, appended |-> FALSE]

\* msgs: StreamMoviesPage.jsx; old: StreamSongsPage.jsx; now: Date.now()
IdleChat ==
    [msgs |-> <<>>, old |-> <<>>, now |-> 0, sent |-> NoSend, echo |-> NoEcho,
     member |-> NoMember]

\* sendMessage as a closure over connected and currentSessionId: does it emit
\* chat:message?  (it throws otherwise)
SendMessageEmitsAlways(conn, sid) == TRUE

SendMessageEmits(conn, sid) == conn /\ sid # Null

\* the comparison without the window: only an equal timestamp matches
IsEchoOfSameInstant(msg, u, text, ts) ==
    /\ msg.username = u
    /\ msg.message = text
    /\ msg.timestamp = ts

\* the test both listeners apply to each displayed message
IsEchoOf(msg, u, text, ts) ==
    /\ msg.username = u
    /\ msg.message = text
    /\ Abs(msg.timestamp - ts) < DuplicateWindowMs

\* new Date(data.timestamp || Date.now())
EchoTime(ts, now) == IF ts = Missing THEN now ELSE ts

\* StreamMoviesPage.jsx handleChatMessage: the setMessages updater
handleChatMessage(prev, u, text, ts) ==
    IF \E i \in 1..Len(prev) : IsEchoOf(prev[i], u, text, ts)
    THEN prev
    ELSE Append(prev, Entry(u, text, ts, FALSE))

\* StreamSongsPage.jsx socket.on('chat:message'): the setMessages updater
ChatMessageListener(prev, u, text, ts) ==
    IF \E i \in 1..Len(prev) : IsEchoOf(prev[i], u, text, ts)
    THEN [i \in 1..Len(prev) |->
            IF IsEchoOf(prev[i], u, text, ts) THEN [prev[i] EXCEPT !.timestamp = ts]
            ELSE prev[i]]
    ELSE Append(prev, Entry(u, text, ts, FALSE))

\* a chat:message event arrives
ChatReceive ==
    /\ Len(chat.msgs) < MaxMessages
    /\ Len(chat.old) < MaxMessages
    /\ \E u \in {Me, Other}, text \in Texts, t \in Times \cup {Missing} :
         LET ts == EchoTime(t, chat.now) IN
         chat' = [chat EXCEPT
                    !.msgs = handleChatMessage(@, u, text, ts),
                    !.old = ChatMessageListener(@, u, text, ts),
                    !.echo = [matched |-> \E i \in 1..Len(chat.msgs) :
                                             IsEchoOf(chat.msgs[i], u, text, ts),
                              username |-> u, message |-> text, timestamp |-> ts]]
    /\ UNCHANGED <<varsSync, varsRendered, next, socket, sockUp, lastEmit, varsTimer, join,
                   leave, sel, seekEnd, leftResolved, verify, varsAdapter>>

\* handleSendMessage with a non-empty input: the optimistic append, then
\* sendMessage.  StreamMoviesPage.jsx lets the error of sendMessage escape and
\* keeps the entry; StreamSongsPage.jsx catches it and drops the last entry.
ChatSend ==
    /\ currentSessionId # Null
    /\ Len(chat.msgs) < MaxMessages
    /\ Len(chat.old) < MaxMessages
    /\ \E text \in Texts :
         LET emits == SendMessageEmits(connected, currentSessionId)
             mine == Entry(Me, text, chat.now, TRUE) IN
         chat' = [chat EXCEPT
                    !.msgs = Append(@, mine),
                    !.old = IF emits THEN Append(@, mine) ELSE @,
                    !.sent = [called |-> TRUE, conn |-> connected, sid |-> currentSessionId,
                              emitted |-> emits,
                              to |-> IF emits THEN currentSessionId ELSE Null]]
    /\ UNCHANGED <<varsSync, varsRendered, next, socket, sockUp, lastEmit, varsTimer, join,
                   leave, sel, seekEnd, leftResolved, verify, varsAdapter>>

\* handleUserJoined / handleUserLeft and the user_joined / user_left
\* listeners of StreamSongsPage.jsx: `${data.username} joined the session` or
\* `... left the session` is appended with the time of arrival
MembershipMessage(prev, u, kind, now) == Append(prev, Entry(u, kind, now, FALSE))

\* a user_joined or user_left event arrives
MembershipEvent ==
    /\ sockUp
    /\ Len(chat.msgs) < MaxMessages
    /\ Len(chat.old) < MaxMessages
    /\ \E kind \in {"joined", "left"} :
         LET msgs == MembershipMessage(chat.msgs, Other, kind, chat.now) IN
         chat' = [chat EXCEPT
                    !.msgs = msgs,
                    !.old = MembershipMessage(@, "system", kind, chat.now),
                    !.member = [seen |-> TRUE,
                                inSession |-> currentSession # NoSession
                                                \/ next.session # NoSession,
                                appended |-> Len(msgs) > Len(chat.msgs)]]
    /\ UNCHANGED <<varsSync, varsRendered, next, socket, sockUp, lastEmit, varsTimer, join,
                   leave, sel, seekEnd, leftResolved, verify, varsAdapter>>

\* time passes
ClockAdvance ==
    /\ \E t \in Times : t > chat.now /\ chat' = [chat EXCEPT !.now = t]
    /\ UNCHANGED <<varsSync, varsRendered, next, socket, sockUp, lastEmit, varsTimer, join,
                   leave, sel, seekEnd, leftResolved, verify, varsAdapter>>

----------------------------------------------------------------------------
(* The three places that call updateSession *)

\* where the player is at `now` when it was at b.position at b.at
LivePosition(b, now) == IF b.playing THEN b.position + (now - b.at) ELSE b.position

\* `position_ms: position`: the provider's position state, which only the
\* player_state_changed listener sets
BroadcastPosition(b, now) == b.position

\* the setInterval callback of the host effect, a closure of the last render:
\* `if (currentTrack && isReady && currentSessionId) updateSession({...})`
Tick ==
    /\ intervals # {}
    /\ pState.track # NoTrack
    /\ isReady
    /\ currentSessionId # Null
    /\ UpdateSessionEmits(connected, currentSessionId)
    /\ lastEmit' = Emission("timer", currentSessionId)
    /\ bc' = [bc EXCEPT !.sent = BroadcastPosition(bc, chat.now),
                        !.live = LivePosition(bc, chat.now),
                        !.sentPlaying = bc.playing]
    /\ UNCHANGED <<varsSync, varsRendered, next, socket, sockUp, varsTimer, varsHandlers,
                   lastOp, q, twin, peer>>

IdleCall == [pc |-> "idle", host |-> FALSE, sid |-> Null, conn |-> FALSE]

IdleSelect == [pc |-> "idle", track |-> NoTrack, host |-> FALSE, sid |-> Null, conn |-> FALSE]

\* handleTrackSelect(track) on a ready player, up to `await playTrack(trackUri, 0)`:
\* in the host branch, or in the branch without a session (a guest only gets
\* currentSong set)
SelectStart ==
    /\ sel.pc \in {"idle", "done"}
    /\ isReady
    /\ IsHostOf(currentSession) \/ currentSession = NoSession
    /\ \E t \in Tracks :
         sel' = [pc |-> "play", track |-> t, host |-> IsHostOf(currentSession),
                 sid |-> currentSessionId, conn |-> connected]
    /\ UNCHANGED <<varsSync, varsRendered, next, socket, sockUp, lastEmit, varsTimer, verify, chat, join, leave,
                   seekEnd, leftResolved, varsAdapter>>

\* playTrack resolves or raises; in the host branch the handler then calls the
\* updateSession of the render it was created in, inside its try/catch
SelectPlayDone ==
    /\ sel.pc = "play"
    /\ \E ok \in BOOLEAN :
         /\ pState' = IF ok THEN AfterPlay(sel.track, 0) ELSE pState
         /\ lastEmit' = IF ok /\ sel.host /\ UpdateSessionEmits(sel.conn, sel.sid)
                        THEN Emission("select", sel.sid)
                        ELSE lastEmit
    /\ sel' = [sel EXCEPT !.pc = "done"]
    /\ UNCHANGED <<isReady, upd, reg, sync, mp, varsRendered, next, socket, sockUp, varsTimer, verify, chat, join, leave,
                   seekEnd, leftResolved, varsAdapter>>

\* MusicPlayer handleSeekEnd with a track loaded (duration > 0), up to
\* `await seek(localPosition)`; isHost and onPositionUpdate are props of the
\* render the handler was created in
SeekEndStart ==
    /\ seekEnd.pc \in {"idle", "done"}
    /\ pState # NoState
    /\ seekEnd' = [pc |-> "seek", host |-> IsHostOf(currentSession), sid |-> currentSessionId,
                    conn |-> connected]
    /\ UNCHANGED <<varsSync, varsRendered, next, socket, sockUp, lastEmit, varsTimer, verify, chat, join, leave,
                   sel, leftResolved, varsAdapter>>

\* the seek resolves or rejects; then `if (onPositionUpdate && isHost)` and the
\* page's `if (isHost && currentSessionId) updateSession({ position_ms: pos })`
SeekEndDone ==
    /\ seekEnd.pc = "seek"
    /\ \E ok \in BOOLEAN, p \in LocalPositions :
         /\ pState' = IF ok /\ isReady THEN AfterSeek(pState, p) ELSE pState
         /\ lastEmit' = IF ok /\ seekEnd.host /\ UpdateSessionEmits(seekEnd.conn, seekEnd.sid)
                        THEN Emission("seek", seekEnd.sid)
                        ELSE lastEmit
    /\ seekEnd' = [seekEnd EXCEPT !.pc = "done"]
    /\ UNCHANGED <<isReady, upd, reg, sync, mp, varsRendered, next, socket, sockUp, varsTimer, verify, chat, join, leave,
                   sel, leftResolved, varsAdapter>>

\* a session_updated event for the current session whose updates carry a
\* host_id: the role of the local user changes
ReceiveHostChange ==
    /\ currentSessionId # Null
    /\ \E h \in {Me, Other} :
         handleSessionUpdate(currentSessionId, NoTrack, Missing, FALSE, h)
    /\ UNCHANGED peer

----------------------------------------------------------------------------
(* SpecSession: the channel, the session handlers and the broadcast timer *)

ChannelInit ==
    /\ connected = FALSE
    /\ currentSessionId = Null
    /\ currentSession = NoSession
    /\ next = [connected |-> FALSE, sessionId |-> Null, session |-> NoSession]
    /\ sockUp = FALSE
    /\ lastEmit = NoEmit
    /\ intervals = {}
    /\ intervalRef = 0
    /\ hasCleanup = FALSE
    /\ join = IdleJoin
    /\ leave = IdleLeave
    /\ sel = IdleSelect
    /\ seekEnd = IdleCall
    /\ leftResolved = FALSE
    /\ verify = IdleVerify
    /\ socket = [pc |-> "created", token |-> TRUE]
    /\ chat = IdleChat

SessionInit ==
    /\ pState = [track |-> "T1", pos |-> 1, paused |-> FALSE]
    /\ isReady = TRUE
    /\ upd = [sid |-> "s1", track |-> NoTrack, pos |-> Missing, playing |-> FALSE]
    /\ sync = IdleSync
    /\ mp = IdlePlay
    /\ reg = IF isReady THEN RegisteredReg ELSE IdleReg
    /\ AdapterInit
    /\ ChannelInit

SessionNext ==
    \/ Render
    \/ SocketConnect
    \/ SocketDisconnect
    \/ JoinStart
    \/ JoinLookup
    \/ JoinAck
    \/ JoinedSessionEvent
    \/ JoinErrorEvent
    \/ LeaveStart
    \/ DeleteStart
    \/ LeaveAck
    \/ DeleteApiResult
    \/ Tick

SpecSession == SessionInit /\ [][SessionNext]_vars

----------------------------------------------------------------------------
(* SpecTimer: every way the session, the role or the playback state changes *)

TimerNext ==
    \/ Render
    \/ PlaybackRender
    \/ SocketConnect
    \/ SocketDisconnect
    \/ JoinStart
    \/ JoinLookup
    \/ JoinAck
    \/ JoinedSessionEvent
    \/ JoinErrorEvent
    \/ LeaveStart
    \/ DeleteStart
    \/ LeaveAck
    \/ DeleteApiResult
    \/ ReceiveHostChange

SpecTimer == SessionInit /\ [][TimerNext]_vars

----------------------------------------------------------------------------
(* SpecBroadcast: the host of a session and the three callers of updateSession *)

\* the host of session s1 after handleCreateSession and its render: connected,
\* a track loaded, the position-update timer running
BroadcastInit ==
    /\ pState = [track |-> "T1", pos |-> 1, paused |-> FALSE]
    /\ isReady = TRUE
    /\ upd = [sid |-> "s1", track |-> NoTrack, pos |-> Missing, playing |-> FALSE]
    /\ sync = IdleSync
    /\ mp = IdlePlay
    /\ reg = IF isReady THEN RegisteredReg ELSE IdleReg
    /\ AdapterInit
    /\ connected = TRUE
    /\ currentSessionId = "s1"
    /\ currentSession = SessionRecord("s1")
    /\ next = [connected |-> TRUE, sessionId |-> "s1", session |-> SessionRecord("s1")]
    /\ sockUp = TRUE
    /\ lastEmit = NoEmit
    /\ intervals = {1}
    /\ intervalRef = 1
    /\ hasCleanup = TRUE
    /\ join = IdleJoin
    /\ leave = IdleLeave
    /\ sel = IdleSelect
    /\ seekEnd = IdleCall
    /\ leftResolved = FALSE
    /\ verify = IdleVerify
    /\ socket = [pc |-> "created", token |-> TRUE]
    /\ chat = IdleChat

BroadcastNext ==
    \/ Render
    \/ SocketConnect
    \/ SocketDisconnect
    \/ LeaveStart
    \/ LeaveAck
    \/ Tick
    \/ SelectStart
    \/ SelectPlayDone
    \/ SeekEndStart
    \/ SeekEndDone

SpecBroadcast == BroadcastInit /\ [][BroadcastNext]_vars

----------------------------------------------------------------------------
(* SpecReconnect: StreamSongsPage.jsx on a provider that keeps its session id *)

\* provider and page as constructed: no socket connection, no session.  The
\* provider keeps currentSessionId over a disconnect and over the page being
\* left and opened again.
ReconnectInit ==
    /\ pState = NoState
    /\ isReady = FALSE
    /\ upd = [sid |-> "s1", track |-> NoTrack, pos |-> Missing, playing |-> FALSE]
    /\ sync = IdleSync
    /\ mp = IdlePlay
    /\ reg = IF isReady THEN RegisteredReg ELSE IdleReg
    /\ AdapterInit
    /\ connected = FALSE
    /\ currentSessionId = Null
    /\ currentSession = NoSession
    /\ next = [connected |-> FALSE, sessionId |-> Null, session |-> NoSession]
    /\ sockUp = FALSE
    /\ lastEmit = NoEmit
    /\ intervals = {}
    /\ intervalRef = 0
    /\ hasCleanup = FALSE
    /\ join = IdleJoin
    /\ leave = IdleLeave
    /\ sel = IdleSelect
    /\ seekEnd = IdleCall
    /\ leftResolved = FALSE
    /\ verify = IdleVerify
    /\ socket = [pc |-> "created", token |-> TRUE]
    /\ chat = IdleChat

ReconnectNext ==
    \/ SocketConnect
    \/ SocketDisconnect
    \/ ReconnectRender
    \/ PageMount
    \/ VerifyResult
    \/ JoinStart
    \/ JoinLookup
    \/ JoinAck
    \/ JoinedSessionEvent
    \/ JoinErrorEvent

SpecReconnect == ReconnectInit /\ [][ReconnectNext]_vars

----------------------------------------------------------------------------
(* SpecLeave: the host of a session leaves or deletes it *)

LeaveNext ==
    \/ Render
    \/ SocketConnect
    \/ SocketDisconnect
    \/ LeaveStart
    \/ DeleteStart
    \/ LeaveAck
    \/ DeleteApiResult
    \/ Tick

\* React always gets to render what is queued, and the HTTP request of
\* api.deleteSession always answers or fails; nothing makes the server
\* acknowledge leave_session
SpecLeave ==
    BroadcastInit /\ [][LeaveNext]_vars /\ WF_vars(Render) /\ WF_vars(DeleteApiResult)

----------------------------------------------------------------------------
(* SpecConnect: the provider is mounted with or without a credential *)

ConnectInit ==
    /\ pState = NoState
    /\ isReady = FALSE
    /\ upd = [sid |-> "s1", track |-> NoTrack, pos |-> Missing, playing |-> FALSE]
    /\ sync = IdleSync
    /\ mp = IdlePlay
    /\ reg = IF isReady THEN RegisteredReg ELSE IdleReg
    /\ AdapterInit
    /\ connected = FALSE
    /\ currentSessionId = Null
    /\ currentSession = NoSession
    /\ next = [connected |-> FALSE, sessionId |-> Null, session |-> NoSession]
    /\ socket = [pc |-> "uninitialized", token |-> FALSE]
    /\ sockUp = FALSE
    /\ lastEmit = NoEmit
    /\ intervals = {}
    /\ intervalRef = 0
    /\ hasCleanup = FALSE
    /\ join = IdleJoin
    /\ leave = IdleLeave
    /\ sel = IdleSelect
    /\ seekEnd = IdleCall
    /\ leftResolved = FALSE
    /\ verify = IdleVerify
    /\ chat = IdleChat

ConnectNext ==
    \/ ProviderMount
    \/ SocketConnect
    \/ SocketDisconnect
    \/ Render
    \/ JoinStart
    \/ JoinLookup
    \/ JoinAck
    \/ JoinedSessionEvent
    \/ JoinErrorEvent

SpecConnect == ConnectInit /\ [][ConnectNext]_vars

----------------------------------------------------------------------------
(* SpecChat: a member of a session sends and receives chat messages *)

ChatInit ==
    /\ pState = NoState
    /\ isReady = FALSE
    /\ upd = [sid |-> "s1", track |-> NoTrack, pos |-> Missing, playing |-> FALSE]
    /\ sync = IdleSync
    /\ mp = IdlePlay
    /\ reg = IF isReady THEN RegisteredReg ELSE IdleReg
    /\ AdapterInit
    /\ connected = TRUE
    /\ currentSessionId = "s2"
    /\ currentSession = SessionRecord("s2")
    /\ next = [connected |-> TRUE, sessionId |-> "s2", session |-> SessionRecord("s2")]
    /\ socket = [pc |-> "created", token |-> TRUE]
    /\ sockUp = TRUE
    /\ lastEmit = NoEmit
    /\ intervals = {}
    /\ intervalRef = 0
    /\ hasCleanup = FALSE
    /\ join = IdleJoin
    /\ leave = IdleLeave
    /\ sel = IdleSelect
    /\ seekEnd = IdleCall
    /\ leftResolved = FALSE
    /\ verify = IdleVerify
    /\ chat = IdleChat

ChatNext ==
    \/ ChatSend
    \/ ChatReceive
    \/ ClockAdvance
    \/ SocketConnect
    \/ SocketDisconnect
    \/ Render

SpecChat == ChatInit /\ [][ChatNext]_vars

----------------------------------------------------------------------------
(* SpecReady: the player's ready handshake and transferPlayback *)

\* waitForDeviceRegistration is entered: the loop starts at attempt 0
WaitBegin(r, pc, maxAttempts) ==
    [r EXCEPT !.pc = pc, !.max = maxAttempts, !.k = 0, !.queries = 0,
              !.result = "none", !.lastFound = FALSE]

\* one pass of the loop: getAvailableDevices() is awaited and the list searched
WaitQuery(r, found) ==
    LET step == WaitStep(r.k, r.max, found)
    IN  [r EXCEPT !.queries = @ + 1,
                  !.lastFound = found,
                  !.seen = @ \/ found,
                  !.k = IF step = "again" THEN @ + 1 ELSE @,
                  !.result = CASE step = "found" -> "true"
                               [] step = "notfound" -> "false"
                               [] OTHER -> "none"]

\* the player's ready event: device id stored, the registration wait starts
PlayerReady ==
    /\ reg.pc = "uninitialized" \/ (reg.pc = "idle" /\ ~isReady)
    /\ reg' = [WaitBegin(reg, "r_wait", WaitAttemptsReady) EXCEPT !.exhausted = FALSE,
                                                                 !.down = FALSE]
    /\ UNCHANGED <<pState, isReady, upd, sync, mp, varsChannel, varsAdapter>>

\* the ready listener polls; when the wait returns false it logs
\* "marking as ready" and calls setIsReady(true)
ReadyPoll ==
    /\ reg.pc = "r_wait"
    /\ \E found \in BOOLEAN :
         LET r == WaitQuery(reg, found)
         IN  CASE r.result = "true" ->
                    /\ reg' = [r EXCEPT !.pc = "r_put"]
                    /\ UNCHANGED isReady
               [] r.result = "false" ->
                    /\ reg' = [r EXCEPT !.pc = "idle", !.exhausted = TRUE]
                    /\ isReady' = TRUE
               [] OTHER ->
                    /\ reg' = r
                    /\ UNCHANGED isReady
    /\ UNCHANGED <<pState, upd, sync, mp, varsChannel, varsAdapter>>

\* the ready listener's transfer PUT: setIsReady(true) whether the response is
\* ok or not, and in the catch block when the request throws
ReadyTransfer ==
    /\ reg.pc = "r_put"
    /\ \E resp \in {"ok", "notfound", "error", "throws"} :
         /\ reg' = [reg EXCEPT !.pc = "idle", !.sent = TRUE,
                               !.blind = @ \/ ~reg.seen]
         /\ isReady' = TRUE
    /\ UNCHANGED <<pState, upd, sync, mp, varsChannel, varsAdapter>>

\* setIsReady(false) is all the not_ready listener does to the adapter: the
\* async block of an earlier ready event runs on.
\* the player's not_ready event, at any moment after the first ready event
PlayerNotReady ==
    /\ reg.pc # "uninitialized"
    /\ isReady \/ ~reg.down
    /\ isReady' = FALSE
    /\ reg' = [reg EXCEPT !.down = TRUE]
    /\ UNCHANGED <<pState, upd, sync, mp, varsChannel, varsAdapter>>

\* transferPlayback(true), as playTrack calls it: raises unless isReady,
\* otherwise waits for the registration with 5 attempts
TransferCall ==
    /\ reg.pc = "idle"
    /\ isReady
    /\ reg' = WaitBegin(reg, "t_wait", WaitAttemptsTransfer)
    /\ UNCHANGED <<pState, isReady, upd, sync, mp, varsChannel, varsAdapter>>

\* transferPlayback polls; when the wait returns false it logs
\* "attempting transfer anyway" and goes on to the PUT
TransferPoll ==
    /\ reg.pc = "t_wait"
    /\ \E found \in BOOLEAN :
         LET r == WaitQuery(reg, found)
         IN  reg' = IF r.result = "none" THEN r ELSE [r EXCEPT !.pc = "t_put"]
    /\ UNCHANGED <<pState, isReady, upd, sync, mp, varsChannel, varsAdapter>>

\* transferPlayback's PUT
TransferPut ==
    /\ reg.pc = "t_put"
    /\ \E resp \in {"ok", "notfound", "error"} :
         reg' = [reg EXCEPT !.pc = "idle", !.sent = TRUE, !.blind = @ \/ ~reg.seen]
    /\ UNCHANGED <<pState, isReady, upd, sync, mp, varsChannel, varsAdapter>>

ReadyInit == ChatInit

ReadyNext ==
    \/ PlayerReady
    \/ ReadyPoll
    \/ ReadyTransfer
    \/ PlayerNotReady
    \/ TransferCall
    \/ TransferPoll
    \/ TransferPut

SpecReady == ReadyInit /\ [][ReadyNext]_vars

----------------------------------------------------------------------------
(* SpecSync: a ready adapter in a joined session receives session_updated *)

SyncInit ==
    /\ pState = NoState
    /\ isReady = TRUE
    /\ upd = [sid |-> "s1", track |-> NoTrack, pos |-> Missing, playing |-> FALSE]
    /\ sync = IdleSync
    /\ mp = IdlePlay
    /\ reg = IF isReady THEN RegisteredReg ELSE IdleReg
    /\ AdapterInit
    /\ \E s \in Sessions :
         /\ currentSessionId = s
         /\ currentSession = SessionRecord(s)
         /\ next = [connected |-> TRUE, sessionId |-> s, session |-> SessionRecord(s)]
    /\ connected = TRUE
    /\ sockUp = TRUE
    /\ lastEmit = NoEmit
    /\ intervals = {}
    /\ intervalRef = 0
    /\ hasCleanup = FALSE
    /\ join = IdleJoin
    /\ leave = IdleLeave
    /\ sel = IdleSelect
    /\ seekEnd = IdleCall
    /\ leftResolved = FALSE
    /\ verify = IdleVerify
    /\ socket = [pc |-> "created", token |-> TRUE]
    /\ chat = IdleChat

SyncNext ==
    \/ ReceiveSessionUpdated
    \/ PlayerStateChanged
    \/ SyncGetState
    \/ SyncWaitPoll
    \/ SyncTransferPut
    \/ SyncPlay
    \/ SyncSeek
    \/ SyncPlayPause
    \/ MusicPlayerEffect
    \/ PlayWaitPoll
    \/ PlayTransferPut
    \/ PlayQueueGen
    \/ PlayPut

SpecSync == SyncInit /\ [][SyncNext]_vars

----------------------------------------------------------------------------
(* SpotifyProvider: pause, resume, seek, setVolume; the queue; the reports *)
(* of the external player                                                 *)

NoArtist == "none"           \* track.artists absent or empty
MaxQueue == 2                \* tracks in a report or a recommendation response

\* tracks as the SDK and the Web API describe them
ApiTracks == {[id |-> "T1", artist |-> "a1"], [id |-> "T2", artist |-> NoArtist]}
\* a null element of a response's track list
NullTrack == [id |-> "null", artist |-> NoArtist]

SeqsOver(S, n) == UNION {[1..k -> S] : k \in 0..n}

\* the map both the listener and generateQueue apply to a track
QueueEntry(track) ==
    [id |-> track.id,
     artist |-> IF track.artist = NoArtist THEN "Unknown Artist" ELSE track.artist]

IdsOf(tracks) == [i \in 1..Len(tracks) |-> tracks[i].id]

\* the local queue becomes the report, last track first
QueueFromReportReversed(prev, nextTracks) ==
    [i \in 1..Len(nextTracks) |-> QueueEntry(nextTracks[Len(nextTracks) + 1 - i])]

\* `setQueue(queueTracks)`: the mapped next_tracks replace the local queue
QueueFromReport(prev, nextTracks) ==
    [i \in 1..Len(nextTracks) |-> QueueEntry(nextTracks[i])]

\* the player_state_changed listener on a non-null state: position and
\* paused are stored; with a track_window, its next_tracks become the queue
StateChangedListener ==
    /\ pState # NoState
    /\ bc' = [bc EXCEPT !.position = pState.pos, !.playing = ~pState.paused, !.at = chat.now]
    /\ \E window \in BOOLEAN, nextTracks \in SeqsOver(ApiTracks, MaxQueue) :
         /\ ~window => nextTracks = <<>>
         /\ q' = IF window
                 THEN [q EXCEPT !.queue = QueueFromReport(@, nextTracks),
                                !.report = [window |-> TRUE, next |-> nextTracks]]
                 ELSE q
    /\ UNCHANGED <<varsSync, varsChannel, lastOp, twin, peer>>

\* seed tracks a caller passes: none, one without id, a malformed id, a track
SeedInputs ==
    {NoSeed, [present |-> TRUE, id |-> ""], [present |-> TRUE, id |-> "bad-id"],
     [present |-> TRUE, id |-> "T1"]}

\* /^[a-zA-Z0-9]+$/ over the identifiers of the model
AlphaNumeric(id) == id \in {"T1", "T2"}

\* api.getSpotifyRecommendations: it throws, or resolves to null, to an object
\* without tracks, to one whose tracks is no array, or to one with a track list
RecommendationResponses ==
    {[kind |-> k, tracks |-> <<>>] : k \in {"throws", "null", "notracks", "notarray"}}
      \cup {[kind |-> "list", tracks |-> s] : s \in SeqsOver(ApiTracks \cup {NullTrack}, MaxQueue)}

Returned(tracks) == [raised |-> FALSE, tracks |-> tracks]

\* the catch block passes the error on to the caller
OnCatchRethrows(err) == [raised |-> TRUE, tracks |-> <<>>]

\* `catch (err) { console.warn(...); return []; }`
OnCatch(err) == Returned(<<>>)

\* generateQueue(seedTrack, limit) given the answer of the recommendations
\* request; reading a field of a null element raises inside the try block
generateQueue(seedTrack, resp) ==
    IF ~seedTrack.present \/ seedTrack.id = "" THEN Returned(<<>>)
    ELSE IF ~AlphaNumeric(seedTrack.id) THEN Returned(<<>>)
    ELSE IF resp.kind = "throws" THEN OnCatch("request")
    ELSE IF resp.kind # "list" \/ Len(resp.tracks) = 0 THEN Returned(<<>>)
    ELSE IF \E i \in 1..Len(resp.tracks) : resp.tracks[i] = NullTrack THEN OnCatch("TypeError")
    ELSE Returned([i \in 1..Len(resp.tracks) |-> QueueEntry(resp.tracks[i])])

\* addToQueue(tracks) in a closure that saw `ready`: nothing is requested when
\* not ready, and the loop over no tracks ends at once
AddToQueueBegin(tracks, ready) ==
    [IdleEnqueue EXCEPT !.pc = IF ready /\ Len(tracks) > 0 THEN "send" ELSE "done",
                        !.tracks = tracks, !.ready = ready]

\* a call of generateQueue by a user of the provider, no other one pending
GenerateQueueCall ==
    /\ q.gen # "pending"
    /\ \E seed \in SeedInputs, resp \in RecommendationResponses :
         LET r == generateQueue(seed, resp) IN
           q' = [q EXCEPT !.gen = "settled", !.raised = r.raised, !.result = r.tracks,
                          !.input = [seed |-> seed, resp |-> resp]]
    /\ UNCHANGED <<varsSync, varsChannel, lastOp, bc, twin, peer>>

\* the generateQueue promise playTrackInternal left behind settles: `.then`
\* hands a non-empty result to addToQueue, `.catch` logs
QueueGenReturn ==
    /\ q.gen = "pending"
    /\ \E resp \in RecommendationResponses :
         LET seed == [present |-> TRUE, id |-> q.seed]
             r == generateQueue(seed, resp) IN
           q' = [q EXCEPT !.gen = "settled", !.raised = r.raised, !.result = r.tracks,
                          !.input = [seed |-> seed, resp |-> resp],
                          !.enq = IF ~r.raised /\ Len(r.tracks) > 0
                                  THEN AddToQueueBegin(r.tracks, q.ready) ELSE @]
    /\ UNCHANGED <<varsSync, varsChannel, lastOp, bc, twin, peer>>

\* answers to the POST on /me/player/queue: ok, 204, an error status, a throw
EnqueueResponses == {"ok", "204", "error", "throws"}

EnqueueFailed(resp) == resp \in {"error", "throws"}

\* a failed submission is tried again
EnqueueNextIndexRetrying(i, resp) == IF EnqueueFailed(resp) THEN i ELSE i + 1

\* `for (const track of tracks)`: the loop moves on whatever the answer was
EnqueueNextIndex(i, resp) == i + 1

\* the loop of addToQueue sends the request for the track it is at
EnqueueSend ==
    /\ q.enq.pc = "send"
    /\ q' = [q EXCEPT !.enq.pc = "wait",
                      !.enq.reqs = Append(@, q.enq.tracks[q.enq.i].id),
                      !.enq.inflight = @ + 1]
    /\ UNCHANGED <<varsSync, varsChannel, lastOp, bc, twin, peer>>

\* the awaited request is answered; failures are logged
EnqueueReturn ==
    /\ q.enq.pc = "wait"
    /\ \E resp \in EnqueueResponses :
         LET i == EnqueueNextIndex(q.enq.i, resp) IN
           q' = [q EXCEPT !.enq.pc = IF i > Len(q.enq.tracks) THEN "done" ELSE "send",
                          !.enq.i = i,
                          !.enq.inflight = @ - 1,
                          !.enq.failed = @ \/ EnqueueFailed(resp)]
    /\ UNCHANGED <<varsSync, varsChannel, lastOp, bc, twin, peer>>


\* a click on an entry of the displayed queue: playTrack(trackUri, 0, false),
\* whatever isReady is; playTrackInternal raises without a device id
QueueItemClick ==
    /\ mp.pc \in {"idle", "done"}
    /\ \E i \in 1..Len(q.queue) :
         mp' = IF reg.pc = "uninitialized"
               THEN [IdlePlay EXCEPT !.pc = "done", !.err = "unavailable"]
               ELSE PlayBegin(q.queue[i].id, 0, FALSE, isReady)
    /\ UNCHANGED <<pState, isReady, upd, reg, sync, varsChannel, varsAdapter>>

\* `if (!player || !isReady) return;` in pause, resume, seek, setPlayerVolume
OperationAllowedAlways(ready) == TRUE

OperationAllowed(ready) == ready

\* setPlayerVolume: Math.max(0, Math.min(100, newVolume))
ClampVolume(v) == IF v < 0 THEN 0 ELSE IF v > 100 THEN 100 ELSE v

VolumeInputs == {-10, 50, 110}

\* pause()
PauseCall ==
    /\ Quiet
    /\ lastOp' = [lastOp EXCEPT !.op = "pause", !.ready = isReady,
                                !.sent = OperationAllowed(isReady)]
    /\ pState' = IF OperationAllowed(isReady) THEN AfterPause(pState, TRUE) ELSE pState
    /\ UNCHANGED <<isReady, upd, reg, sync, mp, varsChannel, q, bc, twin, peer>>

\* resume()
ResumeCall ==
    /\ Quiet
    /\ lastOp' = [lastOp EXCEPT !.op = "resume", !.ready = isReady,
                                !.sent = OperationAllowed(isReady)]
    /\ pState' = IF OperationAllowed(isReady) THEN AfterPause(pState, FALSE) ELSE pState
    /\ UNCHANGED <<isReady, upd, reg, sync, mp, varsChannel, q, bc, twin, peer>>

\* seek(positionMs)
SeekCall ==
    /\ Quiet
    /\ \E p \in LocalPositions :
         pState' = IF OperationAllowed(isReady) THEN AfterSeek(pState, p) ELSE pState
    /\ lastOp' = [lastOp EXCEPT !.op = "seek", !.ready = isReady,
                                !.sent = OperationAllowed(isReady)]
    /\ UNCHANGED <<isReady, upd, reg, sync, mp, varsChannel, q, bc, twin, peer>>

\* setPlayerVolume(newVolume)
SetVolumeCall ==
    /\ Quiet
    /\ \E v \in VolumeInputs :
         lastOp' = [op |-> "setVolume", ready |-> isReady, sent |-> OperationAllowed(isReady),
                    volume |-> IF OperationAllowed(isReady) THEN ClampVolume(v)
                               ELSE lastOp.volume]
    /\ UNCHANGED <<varsSync, varsChannel, q, bc, twin, peer>>

----------------------------------------------------------------------------
(* SpecPlay: the calls of playTrack a session member's updates lead to,   *)
(* every request of a call eventually answered                            *)

PlayInit == SyncInit

PlayNext ==
    \/ ReceiveSessionUpdated
    \/ MusicPlayerEffect
    \/ PlayWaitPoll
    \/ PlayTransferPut
    \/ PlayQueueGen
    \/ PlayPut

SpecPlay ==
    /\ PlayInit
    /\ [][PlayNext]_vars
    /\ WF_vars(MusicPlayerEffect)
    /\ WF_vars(PlayWaitPoll)
    /\ WF_vars(PlayTransferPut)
    /\ WF_vars(PlayQueueGen)
    /\ WF_vars(PlayPut)

----------------------------------------------------------------------------
(* SpecOps: a ready adapter whose player reports its state, turns not     *)
(* ready, and is operated from the player's controls and queue            *)

\* a member of a session on a connected channel, no handler running
MemberInit ==
    /\ \E s \in Sessions :
         /\ currentSessionId = s
         /\ currentSession = SessionRecord(s)
         /\ next = [connected |-> TRUE, sessionId |-> s, session |-> SessionRecord(s)]
    /\ connected = TRUE
    /\ sockUp = TRUE
    /\ lastEmit = NoEmit
    /\ intervals = {}
    /\ intervalRef = 0
    /\ hasCleanup = FALSE
    /\ join = IdleJoin
    /\ leave = IdleLeave
    /\ sel = IdleSelect
    /\ seekEnd = IdleCall
    /\ leftResolved = FALSE
    /\ verify = IdleVerify
    /\ socket = [pc |-> "created", token |-> TRUE]
    /\ chat = IdleChat

\* the player has reported: it plays T1 at position 1, T1 and T2 are upcoming
ReportedQueue == <<[id |-> "T1", artist |-> "a1"], [id |-> "T2", artist |-> NoArtist]>>

PlayingInit ==
    /\ pState = AfterPlay("T1", 1)
    /\ isReady = TRUE
    /\ upd = [sid |-> "s1", track |-> NoTrack, pos |-> Missing, playing |-> FALSE]
    /\ sync = IdleSync
    /\ mp = IdlePlay
    /\ reg = RegisteredReg
    /\ lastOp = IdleOps
    /\ q = [IdleQueue EXCEPT !.queue = QueueFromReport(<<>>, ReportedQueue),
                             !.report = [window |-> TRUE, next |-> ReportedQueue]]
    /\ bc = [IdleBroadcast EXCEPT !.position = 1, !.playing = TRUE]
    /\ twin = [run |-> IdlePlay, gen |-> "none"]
    /\ peer = IdlePeer
    /\ MemberInit

OpsInit == PlayingInit

OpsNext ==
    \/ PlayerNotReady
    \/ QueueItemClick
    \/ PlayWaitPoll
    \/ PlayTransferPut
    \/ PlayQueueGen
    \/ PlayPut
    \/ PauseCall
    \/ ResumeCall
    \/ SeekCall
    \/ SetVolumeCall

SpecOps == OpsInit /\ [][OpsNext]_vars

----------------------------------------------------------------------------
(* SpecQueue: a call of playTrack that has transferred playback starts    *)
(* queue generation and plays; recommendations are submitted to the        *)
(* device queue while the player reports its upcoming tracks               *)

QueueInit ==
    /\ pState = AfterPlay("T1", 1)
    /\ isReady = TRUE
    /\ upd = [sid |-> "s1", track |-> NoTrack, pos |-> Missing, playing |-> FALSE]
    /\ sync = IdleSync
    /\ \E t \in Tracks :
         mp = [PlayBegin(t, 0, TRUE, TRUE) EXCEPT !.pc = "gen",
                                                  !.cmds = <<Cmd("transfer", NoTrack, 0)>>]
    /\ reg = RegisteredReg
    /\ AdapterInit
    /\ MemberInit

QueueNext ==
    \/ PlayQueueGen
    \/ PlayPut
    \/ QueueGenReturn
    \/ EnqueueSend
    \/ EnqueueReturn
    \/ StateChangedListener

SpecQueue == QueueInit /\ [][QueueNext]_vars

\* SpecGenerate: generateQueue called by playTrack and by users of the
\* provider, with every seed and every answer of the recommendations request
GenerateInit == QueueInit

GenerateNext ==
    \/ PlayQueueGen
    \/ PlayPut
    \/ QueueGenReturn
    \/ GenerateQueueCall

SpecGenerate == GenerateInit /\ [][GenerateNext]_vars

----------------------------------------------------------------------------
(* SpecTwin: two calls of playTrack with the same arguments that get the   *)
(* same answers from the device and the player, step by step; their queue  *)
(* generations end independently: resolved, failed, or never               *)

PlayWaits == {"a_wait", "b_wait", "c_wait"}
PlayTransfers == {"a_put", "b_put", "c_put"}
PlayPlays == {"play1", "play2"}

\* the next step of a call of playTrackInternal, given whether the device
\* list holds the device and how the request is answered; `gen` is the state
\* of the generateQueue promise the call left behind
PlayStep(run, gen, found, resp) ==
    CASE run.pc \in PlayWaits -> PlayWaitNext(run, found)
      [] run.pc \in PlayTransfers -> PlayTransferNext(run, resp)
      [] run.pc = "gen" -> PlayQueueGenNext(run)
      [] run.pc \in PlayPlays ->
             IF PlayWaitsForQueue(gen) THEN run ELSE PlayPutNext(run, resp)
      [] OTHER -> run

TwinInit == PlayingInit

\* playTrack(trackUri, positionMs, generateQueueForTrack) is called in both
TwinStart ==
    /\ mp.pc = "idle"
    /\ \E t \in Tracks, gen \in BOOLEAN :
         /\ mp' = PlayBegin(t, 0, gen, isReady)
         /\ twin' = [twin EXCEPT !.run = PlayBegin(t, 0, gen, isReady)]
    /\ UNCHANGED <<pState, isReady, upd, reg, sync, varsChannel, lastOp, q, bc, peer>>

\* both calls take their next step on the same answer
TwinStep ==
    /\ mp.pc \in PlayWaits \cup PlayTransfers \cup PlayPlays \cup {"gen"}
    /\ \E found \in BOOLEAN, resp \in Responses :
         /\ mp' = PlayStep(mp, q.gen, found, resp)
         /\ twin' = [run |-> PlayStep(twin.run, twin.gen, found, resp),
                     gen |-> IF twin.run.pc = "gen" /\ StartsQueueGen(twin.run)
                             THEN "pending" ELSE twin.gen]
         /\ q' = IF mp.pc = "gen" /\ StartsQueueGen(mp)
                 THEN [q EXCEPT !.gen = "pending", !.result = <<>>, !.input = NoInput,
                                !.seed = mp.track, !.ready = mp.ready]
                 ELSE q
         /\ pState' = IF mp.pc \in PlayPlays /\ mp'.pc = "done" /\ mp'.err = "none"
                      THEN AfterPlay(mp.track, mp.pos) ELSE pState
    /\ UNCHANGED <<isReady, upd, reg, sync, varsChannel, lastOp, bc, peer>>

\* the second call's generateQueue promise settles, in either way
TwinGenSettles ==
    /\ twin.gen = "pending"
    /\ \E outcome \in {"resolved", "failed"} : twin' = [twin EXCEPT !.gen = outcome]
    /\ UNCHANGED <<varsSync, varsChannel, lastOp, q, bc, peer>>

TwinNext ==
    \/ TwinStart
    \/ TwinStep
    \/ TwinGenSettles
    \/ QueueGenReturn
    \/ EnqueueSend
    \/ EnqueueReturn

SpecTwin == TwinInit /\ [][TwinNext]_vars

----------------------------------------------------------------------------
(* SpecLate: the host of a session receives chat and membership events,   *)
(* leaves or deletes the session, and events of the session keep arriving  *)

LateInit == BroadcastInit

\* a session_updated event with the track the host was playing, at position
\* 1 and playing, for either session
LateSessionUpdated ==
    /\ \E sid \in Sessions, t \in {NoTrack, "T1"} : handleSessionUpdate(sid, t, 1, TRUE, Undef)
    /\ UNCHANGED peer

LateNext ==
    \/ Render
    \/ SocketConnect
    \/ SocketDisconnect
    \/ LeaveStart
    \/ DeleteStart
    \/ LeaveAck
    \/ DeleteApiResult
    \/ Tick
    \/ LateSessionUpdated
    \/ MembershipEvent

SpecLate == LateInit /\ [][LateNext]_vars

----------------------------------------------------------------------------
(* SpecPosition: the host's player reports its state from time to time    *)
(* while the broadcast timer ticks                                         *)

PositionInit == BroadcastInit

PositionNext ==
    \/ StateChangedListener
    \/ PlayerStateChanged
    \/ ClockAdvance
    \/ Tick

SpecPosition == PositionInit /\ [][PositionNext]_vars

----------------------------------------------------------------------------
(* SpecJoinPlay: a guest with a ready player and a connected channel, and  *)
(* the host of its session, who selects a track; every request is answered *)
(* and every relayed event is handed to the page                           *)

MaxTicks == 1                \* broadcast ticks of the host after its play

\* the session of the guest, whose host is the other user
PeerSession == "s2"

\* the host's handleTrackSelect(track), up to `await playTrack(trackUri, 0)`
PeerSelectStart ==
    /\ peer.pc \in {"idle", "failed"}
    /\ \E t \in Tracks : peer' = [peer EXCEPT !.pc = "play", !.track = t]
    /\ UNCHANGED <<varsSync, varsChannel, lastOp, q, bc, twin>>

\* the host's playTrack resolves or raises; after it resolved,
\* updateSession({track_id, position_ms: 0, is_playing: true}) emits when the
\* host's channel is connected and raises into the handler's catch otherwise
PeerPlayDone ==
    /\ peer.pc = "play"
    /\ \E ok \in BOOLEAN :
         LET emits == ok /\ UpdateSessionEmits(peer.conn, PeerSession) IN
         peer' = [peer EXCEPT
                    !.pc = IF ok THEN "playing" ELSE "failed",
                    !.played = ok,
                    !.issued = emits,
                    !.wire = IF emits
                             THEN Append(@, [track |-> peer.track, pos |-> 0, playing |-> TRUE])
                             ELSE @]
    /\ UNCHANGED <<varsSync, varsChannel, lastOp, q, bc, twin>>

\* the host's broadcast timer ticks while the track plays
PeerTick ==
    /\ peer.pc = "playing"
    /\ peer.ticks < MaxTicks
    /\ \E p \in {0, 1} :
         peer' = [peer EXCEPT
                    !.ticks = @ + 1,
                    !.wire = IF UpdateSessionEmits(peer.conn, PeerSession)
                             THEN Append(@, [track |-> peer.track, pos |-> p, playing |-> TRUE])
                             ELSE @]
    /\ UNCHANGED <<varsSync, varsChannel, lastOp, q, bc, twin>>

\* the server's session_updated for the oldest update reaches the guest's page
PeerDeliver ==
    /\ peer.wire # <<>>
    /\ sockUp
    /\ LET u == Head(peer.wire) IN
         handleSessionUpdate(PeerSession, u.track, u.pos, u.playing, Undef)
    /\ peer' = [peer EXCEPT !.wire = Tail(@)]

JoinPlayInit ==
    /\ pState \in PlayerStates
    /\ isReady = TRUE
    /\ upd = [sid |-> PeerSession, track |-> NoTrack, pos |-> Missing, playing |-> FALSE]
    /\ sync = IdleSync
    /\ mp = IdlePlay
    /\ reg = RegisteredReg
    /\ lastOp = IdleOps
    /\ q = IdleQueue
    /\ bc = IdleBroadcast
    /\ twin = [run |-> IdlePlay, gen |-> "none"]
    /\ \E c \in BOOLEAN : peer = [IdlePeer EXCEPT !.conn = c]
    /\ MemberInit
    /\ currentSessionId = PeerSession

JoinPlayNext ==
    \/ PeerSelectStart
    \/ PeerPlayDone
    \/ PeerTick
    \/ PeerDeliver
    \/ SyncGetState
    \/ SyncWaitPoll
    \/ SyncTransferPut
    \/ SyncPlay
    \/ SyncSeek
    \/ SyncPlayPause
    \/ MusicPlayerEffect
    \/ PlayWaitPoll
    \/ PlayTransferPut
    \/ PlayQueueGen
    \/ PlayPut

SpecJoinPlay ==
    /\ JoinPlayInit
    /\ [][JoinPlayNext]_vars
    /\ WF_vars(PeerDeliver)
    /\ WF_vars(SyncGetState)
    /\ WF_vars(SyncWaitPoll)
    /\ WF_vars(SyncTransferPut)
    /\ WF_vars(SyncPlay)
    /\ WF_vars(SyncSeek)
    /\ WF_vars(SyncPlayPause)
    /\ WF_vars(MusicPlayerEffect)
    /\ WF_vars(PlayWaitPoll)
    /\ WF_vars(PlayTransferPut)
    /\ WF_vars(PlayQueueGen)
    /\ WF_vars(PlayPut)

----------------------------------------------------------------------------
(* SpecTwoJoins: a second joinSession is called while one is pending *)

TwoJoinsInit == SessionInit

TwoJoinsNext ==
    \/ Render
    \/ SocketConnect
    \/ SocketDisconnect
    \/ JoinStart
    \/ JoinLookup
    \/ JoinAck
    \/ SecondJoinCall
    \/ SecondJoinAck
    \/ JoinSignal

SpecTwoJoins == TwoJoinsInit /\ [][TwoJoinsNext]_vars

----------------------------------------------------------------------------
(* SpecOverlap: the host changes to T2 and the update is re-broadcast     *)
(* while the guest's first run of syncToPosition is in flight               *)

OverlapInit ==
    /\ pState \in [track : Tracks, pos : LocalPositions, paused : BOOLEAN]
    /\ isReady = TRUE
    /\ upd = [sid |-> "s2", track |-> NoTrack, pos |-> Missing, playing |-> FALSE]
    /\ sync = IdleSync
    /\ mp = IdlePlay
    /\ reg = RegisteredReg
    /\ AdapterInit
    /\ currentSessionId = "s2"
    /\ currentSession = SessionRecord("s2")
    /\ next = [connected |-> TRUE, sessionId |-> "s2", session |-> SessionRecord("s2")]
    /\ connected = TRUE
    /\ sockUp = TRUE
    /\ lastEmit = NoEmit
    /\ intervals = {}
    /\ intervalRef = 0
    /\ hasCleanup = FALSE
    /\ join = IdleJoin
    /\ leave = IdleLeave
    /\ sel = IdleSelect
    /\ seekEnd = IdleCall
    /\ leftResolved = FALSE
    /\ verify = IdleVerify
    /\ socket = [pc |-> "created", token |-> TRUE]
    /\ chat = IdleChat

\* the host's update after its change to T2
TrackChangeUpdate ==
    /\ upd.track = NoTrack
    /\ \E pl \in BOOLEAN : handleSessionUpdate("s2", "T2", 1, pl, Undef)
    /\ UNCHANGED peer

OverlapNext ==
    \/ TrackChangeUpdate
    \/ RebroadcastUpdate
    \/ SyncGetState
    \/ SyncWaitPoll
    \/ SyncTransferPut
    \/ SyncPlay
    \/ SyncSeek
    \/ SyncPlayPause
    \/ LateGetState
    \/ LateWaitPoll
    \/ LateTransferPut
    \/ LatePlay
    \/ LateSeek
    \/ LatePlayPause

SpecOverlap == OverlapInit /\ [][OverlapNext]_vars

----------------------------------------------------------------------------
(* Properties of SpecSync *)

\* every command sent to the external player for the event being handled
AllCmds == sync.cmds \o mp.cmds

\* the run of syncToPosition has read the player state and found the reported
\* track to be the one locally playing
SameTrackRun ==
    /\ sync.pc \notin {"idle", "getState"}
    /\ sync.cur # Unread
    /\ sync.cur.track = SyncTrack

\* the run has read the player state and found another track (or none) loaded
TrackChangeRun ==
    /\ sync.pc \notin {"idle", "getState"}
    /\ sync.cur # Unread
    /\ sync.cur.track # SyncTrack

\* C1: when the reported track is the locally playing one, a seek is issued if
\* and only if the local and the reported position differ by more than 500 ms
\* (none at exactly 500 ms), and then it is one seek, to the reported position.
C1_SeekIffDriftExceeds ==
    SameTrackRun =>
        LET seeks == SelectCmds(AllCmds, {"seek"})
            drift == Abs(sync.cur.pos - SyncPosition) IN
        /\ sync.pc \in {"seek", "pp", "done"}
        /\ sync.pc = "seek" => drift > 500 /\ seeks = <<>>
        /\ sync.pc \in {"pp", "done"} =>
               seeks = IF drift > 500 THEN <<Cmd("seek", NoTrack, SyncPosition)>> ELSE <<>>

\* C1 witness: a finished same-track run at 501 ms of drift has issued its seek
C1_Witness ==
    /\ SameTrackRun
    /\ sync.pc = "done"
    /\ Abs(sync.cur.pos - SyncPosition) = 501
    /\ SelectCmds(AllCmds, {"seek"}) = <<Cmd("seek", NoTrack, SyncPosition)>>

\* C2: a session update whose track differs from the guest's locally playing
\* track leads to exactly one play command, for the reported track at the
\* reported position, whatever the player was doing and whatever it answers.
C2_ExactlyOnePlayOnTrackChange ==
    (TrackChangeRun /\ sync.pc = "done" /\ mp.pc = "done") =>
        SelectCmds(AllCmds, {"play"}) = <<Cmd("play", SyncTrack, SyncPosition)>>

\* the pause/resume commands a run should issue for a reported isPlaying and
\* a local paused flag
ExpectedPlayPause(isPlaying, paused) ==
    IF isPlaying /\ paused THEN <<Cmd("resume", NoTrack, 0)>>
    ELSE IF ~isPlaying /\ ~paused THEN <<Cmd("pause", NoTrack, 0)>>
    ELSE <<>>

\* the run read a loaded player state (paused or playing)
LoadedRun == sync.cur # Unread /\ sync.cur # NoState

----------------------------------------------------------------------------
(* Properties of the session handlers and the broadcast timer *)

\* C4: at most one position-update timer is active, the one the ref holds; no
\* timer is active when the page has no current session or the local user is
\* not its host; no timer outlives a join, leave, delete, role change or
\* playback change.
C4_AtMostOneHostTimer ==
    /\ Cardinality(intervals) <= 1
    /\ intervals \subseteq {intervalRef}
    /\ intervals # {} => IsHostOf(currentSession)

\* C4 witness: the user joined s1 as its host, the page rendered and the timer
\* ran; the user has left, the page has rendered again, and no timer is left
C4_Witness ==
    /\ intervals = {}
    /\ intervalRef = 0
    /\ currentSession = NoSession
    /\ next = Rendered
    /\ join.sid = "s1"
    /\ join.settled = "resolved"
    /\ leave.pc = "done"
    /\ leave.kind = "leave"
    /\ leave.emitted
    /\ pState.pos = 502

\* C5: once the leaveSession called by handleLeaveSession has resolved, the
\* timer emits no session_update.
C5_NoTimerUpdateAfterLeaveResolved ==
    ~(lastEmit.by = "timer" /\ lastEmit.afterLeave /\ leave.kind = "leave")

\* C6: every session_update is emitted while the local user is the host of
\* the page's current session, whether by the timer, a track selection or a
\* seek in the player.
C6_OnlyHostBroadcasts ==
    lastEmit.by # "none" => lastEmit.host

\* C7: a finished verification of the cached id has restored the session only
\* for a host or member; otherwise the page's currentSession is null and the
\* provider's currentSessionId has been discarded.
C7_StaleCachedSessionDiscarded ==
    verify.last.sid # Null =>
        IF verify.last.allowed
        THEN verify.last.sessionAfter = SessionRecord(verify.last.sid)
        ELSE verify.last.sessionAfter = NoSession /\ verify.last.sidAfter = Null

\* C8: when joined_session or the acknowledgement has resolved the call, the
\* other signal changes no local state.
C8_SecondSignalIsNoOp ==
    join.settled = "resolved" => ~join.lateChange

\* C9: a rejected join has emitted join_session once, and no later signal
\* changes currentSessionId or currentSession.
C9_RejectedJoinLeavesSessionUnchanged ==
    join.settled = "rejected" => (join.emitted = 1 /\ ~join.lateChange)

\* C10: leaveSession called while not connected emits nothing, and the
\* channel's currentSessionId is null afterwards.
C10_DisconnectedLeaveClears ==
    (leave.called /\ ~leave.conn /\ leave.pc \in {"api", "done"}) =>
        (~leave.emitted /\ leave.sidAfter = Null)

\* C11: once handleLeaveSession or handleDeleteSession has called for the leave
\* or the deletion, the page's currentSession eventually becomes null, whether
\* or not the leave is acknowledged and whether or not the deletion succeeds.
C11_LeaveEventuallyClears ==
    (leave.pc \in {"ack", "api"}) ~> (currentSession = NoSession)

\* C12: whenever join_session or session_update is emitted, the rendered
\* connection state is connected: a send invoked while it is not connected
\* emits nothing.
C12_NoEmitWhileNotConnected ==
    [][(join'.emitted > join.emitted \/ lastEmit' # lastEmit) => connected]_vars

\* C13: when the connect effect found no credential, no socket was created
\* and the connection state is not connected, now or in what is queued.
C13_NoCredentialNoChannel ==
    (socket.pc # "uninitialized" /\ ~socket.token) =>
        /\ socket.pc = "skipped"
        /\ ~sockUp
        /\ ~connected
        /\ ~next.connected

\* C13 witness: without a credential a join was attempted and went nowhere
C13_Witness ==
    /\ socket.pc = "skipped"
    /\ join.pc = "done"
    /\ join.emitted = 0
    /\ ~connected

EchoOfLocalEntry(msgs, e, maxDistance) ==
    \E i \in 1..Len(msgs) :
        /\ msgs[i].local
        /\ msgs[i].username = e.username
        /\ msgs[i].message = e.message
        /\ Abs(msgs[i].timestamp - e.timestamp) <= maxDistance

\* the listener turned the display `before` into `after` by appending an
\* incoming message that is such an echo
AppendedEcho(before, after, maxDistance) ==
    /\ Len(after) = Len(before) + 1
    /\ ~after[Len(after)].local
    /\ EchoOfLocalEntry(before, after[Len(after)], maxDistance)

C16_MatchAdoptsServerTimestamp ==
    chat.echo.matched =>
        \E i \in 1..Len(chat.msgs) :
            /\ chat.msgs[i].username = chat.echo.username
            /\ chat.msgs[i].message = chat.echo.message
            /\ chat.msgs[i].timestamp = chat.echo.timestamp

\* C17: waitForDeviceRegistration issues at most maxAttempts listing queries,
\* returns true on the very query that lists the device (no query follows
\* it) and returns false only after all maxAttempts queries missed it
C17_WaitBoundedByCeiling ==
    /\ reg.queries <= reg.max
    /\ reg.result = "true" => reg.lastFound
    /\ reg.result = "false" => (reg.queries = reg.max /\ ~reg.lastFound)
    /\ reg.pc \in {"r_wait", "t_wait"} => (reg.result = "none" /\ ~reg.lastFound)
    /\ reg.pc \in {"r_put", "t_put"} => reg.result # "none"

C17_Witness ==
    /\ reg.max = WaitAttemptsReady
    /\ reg.result = "false"
    /\ reg.queries = WaitAttemptsReady

\* C18: after a ready handshake whose polling was exhausted without the
\* device being listed, the adapter is not marked ready
C18_ExhaustedHandshakeNotReady ==
    (reg.pc = "idle" /\ reg.exhausted /\ ~reg.sent) => ~isReady

\* C19: no transfer request is sent before some listing query returned the
\* device id
C19_TransferOnlyAfterDeviceListed == ~reg.blind

\* the play requests of the running playTrack call
PlayRequests == Len(SelectCmds(mp.cmds, {"play"}))

\* C20 (as stated): when the first play request returned 404, the finished
\* call has sent exactly one more play request
C20_RetriesExactlyOnceAfter404 ==
    (mp.pc = "done" /\ mp.first = "notfound") => PlayRequests = 2

\* C20 (amended): a call sends at most two play requests; the second one is
\* sent only after the first returned 404 and the registration wait that
\* follows found the device; when that wait fails the call raises after one
\* request, and so it does when the first request failed with another status
C20_AtMostOneRetryOnlyAfter404 ==
    /\ PlayRequests <= 2
    /\ mp.pc \in {"c_wait", "c_put", "play2"} => (PlayRequests = 1 /\ mp.first = "notfound")
    /\ PlayRequests = 2 => mp.first = "notfound"
    /\ (mp.pc = "done" /\ mp.first = "notfound") =>
          (PlayRequests = 2 \/ (PlayRequests = 1 /\ mp.err = "device"))
    /\ (mp.pc = "done" /\ mp.first \notin {"none", "ok", "notfound"}) =>
          (PlayRequests = 1 /\ mp.err = "play")

C20_Witness ==
    /\ mp.pc = "done"
    /\ mp.first = "notfound"
    /\ PlayRequests = 2

\* the requests a call of playTrack can still send from where it is: the
\* polls left in its wait, then the transfer, the play request and what a
\* 404 on it brings
PlayRank(run) ==
    CASE run.pc = "a_wait" -> (WaitAttemptsTransfer - run.k) + 1
                              + WaitAttemptsBeforePlay + 1 + 1 + 1 + WaitAttemptsRetryPlay + 1 + 1
      [] run.pc = "a_put" -> 1 + WaitAttemptsBeforePlay + 1 + 1 + 1 + WaitAttemptsRetryPlay + 1 + 1
      [] run.pc = "b_wait" -> (WaitAttemptsBeforePlay - run.k) + 1 + 1 + 1
                              + WaitAttemptsRetryPlay + 1 + 1
      [] run.pc = "b_put" -> 1 + 1 + 1 + WaitAttemptsRetryPlay + 1 + 1
      [] run.pc = "gen" -> 1 + 1 + WaitAttemptsRetryPlay + 1 + 1
      [] run.pc = "play1" -> 1 + WaitAttemptsRetryPlay + 1 + 1
      [] run.pc = "c_wait" -> (WaitAttemptsRetryPlay - run.k) + 1 + 1
      [] run.pc = "c_put" -> 1 + 1
      [] run.pc = "play2" -> 1
      [] OTHER -> 0

PlayRunning(run) ==
    run.pc \in {"a_wait", "a_put", "b_wait", "b_put", "gen", "play1", "c_wait", "c_put", "play2"}

\* C21: every step of a running playTrack call leaves it fewer requests to
\* send, so a call sends a bounded number of polls, transfer and play
\* requests; and with every request answered the call ends, in success or
\* with a raised error
C21_PlayTrackTerminates ==
    /\ [][(PlayRunning(mp) /\ mp' # mp /\ mp'.pc # "effect" /\ mp'.pc # "idle")
            => PlayRank(mp') < PlayRank(mp)]_vars
    /\ (PlayRunning(mp) ~> ~PlayRunning(mp))

\* C21 witness: a call ended with the raised device error after the device
\* was never listed: 5 + 10 + 15 polls, and one play request
C21_Witness ==
    /\ mp.pc = "done"
    /\ mp.err = "device"
    /\ Len(SelectCmds(mp.cmds, {"play"})) = 1

\* C22: an operation called while the adapter is not ready sends no command:
\* pause, resume, seek and setVolume called with isReady false reach the
\* player with nothing, and a playTrack call of a render whose isReady is
\* false sends no transfer and no play request
C22_NoCommandWhileNotReady ==
    /\ ~lastOp.ready => ~lastOp.sent
    /\ (mp.pc # "idle" /\ ~mp.ready) => mp.cmds = <<>>
----------------------------------------------------------------------------
(* Properties of the queue                                                 *)

\* the cases in which the claim asks for the empty sequence
SeedUsable(seed) == seed.present /\ seed.id # "" /\ AlphaNumeric(seed.id)
ResponseHasTracks(resp) == resp.kind = "list" /\ Len(resp.tracks) > 0

\* C23: generateQueue never raises to its caller; with a missing seed, a
\* malformed seed id, a failed request, or an empty or malformed response it
\* returns the empty sequence, and a non-empty result comes only from a
\* non-empty track list in the response
C23_GenerateQueueNeverRaises ==
    /\ ~q.raised
    /\ q.gen = "settled" =>
         /\ ~(SeedUsable(q.input.seed) /\ ResponseHasTracks(q.input.resp)) => q.result = <<>>
         /\ q.result # <<>> =>
              /\ ResponseHasTracks(q.input.resp)
              /\ IdsOf(q.result) = IdsOf(q.input.resp.tracks)

C23_Witness ==
    /\ q.gen = "settled"
    /\ SeedUsable(q.input.seed)
    /\ q.input.resp.kind = "throws"
    /\ q.result = <<>>
    /\ ~q.raised

IsPrefix(s, t) == Len(s) <= Len(t) /\ \A i \in 1..Len(s) : s[i] = t[i]

\* C25: addToQueue of n tracks while ready sends one enqueue request per
\* track, in input order, each after the previous one was answered; a failed
\* or throwing request is not repeated and the later tracks are still sent
C25_OneRequestPerTrackInOrder ==
    q.enq.ready =>
      /\ q.enq.inflight <= 1
      /\ IsPrefix(q.enq.reqs, IdsOf(q.enq.tracks))
      /\ Len(q.enq.reqs) = (IF q.enq.pc = "send" THEN q.enq.i - 1 ELSE q.enq.i)
           - (IF q.enq.pc = "done" THEN 1 ELSE 0)
      /\ q.enq.pc = "done" => q.enq.reqs = IdsOf(q.enq.tracks)

C25_Witness ==
    /\ q.enq.ready
    /\ q.enq.pc = "done"
    /\ q.enq.failed
    /\ Len(q.enq.tracks) = 2
    /\ q.enq.reqs = IdsOf(q.enq.tracks)

\* C26: generating a queue and submitting tracks leave the local queue as it
\* was, and a state-change notification with an upcoming-tracks report makes
\* the local queue that report, in the same order
C26_QueueMirrorsReports ==
    [][/\ (q'.gen # q.gen \/ q'.enq # q.enq \/ q'.input # q.input) => q'.queue = q.queue
       /\ q'.report # q.report =>
            /\ q'.report.window
            /\ q'.queue = [i \in 1..Len(q'.report.next) |-> QueueEntry(q'.report.next[i])]
            /\ IdsOf(q'.queue) = IdsOf(q'.report.next)]_vars

C26_Witness ==
    /\ q.report.window
    /\ Len(q.queue) = 2
    /\ q.queue[1].id # q.queue[2].id
    /\ q.enq.pc = "done"
    /\ q.enq.ready
    /\ q.enq.reqs # IdsOf(q.queue)
----------------------------------------------------------------------------
(* Properties of the events that arrive without a session                  *)

\* C27: a user_joined or user_left event received while the page has no
\* current session appends nothing to the message list
C27_MembershipEventWithoutSessionDiscarded ==
    (chat.member.seen /\ ~chat.member.inSession) => ~chat.member.appended

\* C28: once a leave or a delete has cleared the page's state, no later tick
\* and no later event of the left session brings it back: the session the
\* page holds stays null and its message list stays empty
C28_ClearedStateStaysCleared ==
    leave.pc = "done" => (next.session = NoSession /\ chat.msgs = <<>>)
----------------------------------------------------------------------------
(* Properties of the broadcast position                                    *)

\* C29: while the host is playing, the position of each broadcast is the
\* position last captured from the player plus the time elapsed since it was
\* captured
C29_BroadcastsLivePosition ==
    (bc.sent # NotSent /\ bc.sentPlaying) => bc.sent = bc.live
----------------------------------------------------------------------------
(* Properties of the join-and-play scenario                                *)

\* the guest's client has sent a play request for track t to its player
GuestPlayed(t) ==
    \E i \in 1..Len(AllCmds) : AllCmds[i].op = "play" /\ AllCmds[i].track = t

\* C30 as stated: once the host has played the track, the guest's player
\* eventually gets a play command for it
C30_GuestEventuallyPlays ==
    peer.played ~> GuestPlayed(peer.track)

\* C30: when the host, its channel connected, has played track T at position
\* 0, the update for T has been issued by then (before any broadcast tick),
\* and the guest's player eventually gets a play command for T
C30_GuestOfConnectedHostEventuallyPlays ==
    /\ []((peer.played /\ peer.conn) => peer.issued)
    /\ (peer.played /\ peer.conn) ~> GuestPlayed(peer.track)

C30_Witness ==
    /\ peer.played
    /\ peer.conn
    /\ peer.issued
    /\ peer.ticks = 0
    /\ GuestPlayed(peer.track)
    /\ mp.pc = "done"
----------------------------------------------------------------------------
(* Properties of the handling of session_updated                           *)

\* C31: a session_updated event whose session id is not the page's current
\* session id, or that arrives while there is none, changes neither the
\* session, nor the current song (the MusicPlayer effect does not run), nor
\* the player: no run of syncToPosition starts and no command is sent
C31_UpdateOfOtherSessionIgnored ==
    [][(LateSessionUpdated /\ upd'.sid # currentSessionId) =>
          /\ next' = next
          /\ mp'.pc = "idle"
          /\ sync'.pc = "idle"
          /\ sync'.cmds \o mp'.cmds = <<>>
          /\ pState' = pState]_vars

\* C31 witness: after the leave was acknowledged and rendered, an update of
\* the left session with a track has been handled and nothing runs
C31_Witness ==
    /\ currentSessionId = Null
    /\ leave.pc = "done"
    /\ upd.sid = "s1"
    /\ upd.track = "T1"
    /\ upd.pos = 1
    /\ mp.pc = "idle"
    /\ sync.pc = "idle"
    /\ next.session = NoSession

\* C32: when the reported track is the one locally playing and the positions
\* differ by at most 500 ms, handling the update sends the player neither a
\* seek nor a play: not from syncToPosition and not from the MusicPlayer
\* effect that the new currentSong object re-runs
C32_SmallDriftLeavesPlaybackAlone ==
    (/\ SameTrackRun
     /\ Abs(sync.cur.pos - SyncPosition) <= DriftThresholdMs
     /\ sync.pc = "done"
     /\ mp.pc = "done") =>
        SelectCmds(AllCmds, {"seek", "play"}) = <<>>

\* C33: on the host no session update makes the page send a command to the
\* host's own player: neither syncToPosition nor the MusicPlayer effect
C33_HostNeverSteered ==
    (IsHostOf(currentSession) /\ upd.sid = currentSessionId) => AllCmds = <<>>

\* C39: when a run of syncToPosition has completed without raising and has
\* left the reported track loaded, the guest's player is playing if and only
\* if the update reported isPlaying - also when the run changed the track
\* (stated before the MusicPlayer effect of the same update sends anything)
C39_PlayingMatchesReportAfterRun ==
    (/\ sync.pc = "done"
     /\ sync.err = "none"
     /\ sync.cur # Unread
     /\ mp.cmds = <<>>
     /\ pState # NoState
     /\ pState.track = SyncTrack) =>
        (~pState.paused <=> SyncPlaying)

----------------------------------------------------------------------------
(* Properties of the chat display *)

\* the display holds an entry appended by handleSendMessage that the
\* incoming message e matches (sender, text, timestamps less than 2000 ms
\* apart)
MatchesLocalEntry(msgs, e) ==
    \E i \in 1..Len(msgs) :
        msgs[i].local /\ IsEchoOf(msgs[i], e.username, e.message, e.timestamp)

\* C34: an incoming message is matched only against locally sent entries: one
\* that matches no such entry is appended to the display of either page,
\* also when a confirmed entry with its sender and text is on display
C34_UnmatchedMessageAppended ==
    [][ChatReceive =>
          /\ ~MatchesLocalEntry(chat.msgs, chat'.echo) =>
                 chat'.msgs = Append(chat.msgs,
                                     Entry(chat'.echo.username, chat'.echo.message,
                                           chat'.echo.timestamp, FALSE))
          /\ ~MatchesLocalEntry(chat.old, chat'.echo) =>
                 chat'.old = Append(chat.old,
                                    Entry(chat'.echo.username, chat'.echo.message,
                                          chat'.echo.timestamp, FALSE))]_vars

\* C40: a handleSendMessage whose sendMessage raised leaves the display of
\* either page as it was before the attempt
C40_FailedSendLeavesNoEntry ==
    [][(ChatSend /\ ~chat'.sent.emitted) =>
          /\ chat'.msgs = chat.msgs
          /\ chat'.old = chat.old]_vars

----------------------------------------------------------------------------
(* Properties of the session state across joins and leaves *)

\* no join and no leave is in flight, no acknowledgement is outstanding and
\* every queued state update has been rendered
QuiescentSession ==
    /\ join.pc \in {"idle", "done"}
    /\ join.ack # "pending"
    /\ leave.pc \in {"idle", "done"}
    /\ next = Rendered

\* C36: in every quiescent state the page's currentSession is non-null if
\* and only if the channel's currentSessionId is, and then they name the
\* same session
C36_SessionAndIdAgree ==
    QuiescentSession =>
        /\ (currentSession # NoSession) <=> (currentSessionId # Null)
        /\ currentSession # NoSession => currentSession.id = currentSessionId

----------------------------------------------------------------------------
(* Properties of the ready flag *)

\* C37: while the player's last signal is not_ready the adapter is not
\* ready, also when the wait or the transfer that an earlier ready event
\* started completes after the not_ready
C37_NotReadyUntilNextReady ==
    reg.down => ~isReady

----------------------------------------------------------------------------
(* Properties of SpecTwoJoins *)

\* C35: with two joinSession calls pending, for different sessions, each
\* promise is settled only by a signal about its own session: its
\* acknowledgement, or a joined_session or error event that belongs to it
C35_JoinSettledByOwnSignal ==
    /\ join.by # Null => join.by = join.sid
    /\ join.other.by # Null => join.other.by = join.other.sid

----------------------------------------------------------------------------
(* Properties of SpecOverlap *)

\* C38: runs of syncToPosition do not overlap: the run started by the
\* re-broadcast of an update whose first run is still in flight sends no play
\* command, so one track change makes the guest play the track once
C38_RebroadcastIssuesNoSecondPlay ==
    SelectCmds(sync.cmds, {"play"}) # <<>> =>
        SelectCmds(sync.late.cmds, {"play"}) = <<>>

====
